---- MODULE Spec2Model ----
(***************************************************************************)
(* PID control simulator: the three pages of the repository                *)
(*   "copia"     src/Pagina Corregida - copia/pid_controller.js            *)
(*   "profesor"  src/Pagina Profesor/pid_controller.js                     *)
(*   "corregida" src/Pagina Corregida/pid_controller.js                    *)
(* modelled as one state machine whose initial state chooses the page.     *)
(*                                                                         *)
(* Numbers.  A JavaScript number is modelled as a pair <<p, q>>:           *)
(*   q > 0   the rational p/q in lowest terms (exact arithmetic; IEEE      *)
(*           rounding and the sign of zero are outside the model),         *)
(*   <<0,0>> NaN,  <<1,0>> +Infinity,  <<-1,0>> -Infinity.                 *)
(* The text of an input element is modelled by the number parseFloat       *)
(* yields for it: an empty or non-numeric text is NaN.                     *)
(***************************************************************************)
EXTENDS Integers, Sequences, FiniteSets, TLC

VARIABLES
    page,                \* the page loaded: "copia", "profesor" or "corregida"
    dom,                 \* the values of the page's input elements
    storage,             \* localStorage 'pidConfig' of copia: <<>> or <<config>>
    simulationData,      \* the global simulationData of copia and profesor
    metrics,             \* the metric displays of the page
    loading,             \* copia: the loading indicator is visible
    corr,                \* corregida: the simulation variables of the closure
    simulateBtnDisabled, \* corregida: simulateBtn.disabled
    pendingTimers,       \* corregida: setTimeout callbacks not yet run
    lastRun,             \* what the latest call of runSimulation / simulatePID did
    history,             \* ghost: the undisturbed completed runs and their results
    ops,                 \* user events so far
    tuning,              \* the Ziegler-Nichols tuning panel of copia and profesor
    resetSinceClick,     \* ghost: resetSimulation ran after the last click on simulateBtn
    call,                \* the function applied by the function-level specifications
    ret                  \* and its result

vars == <<page, dom, storage, simulationData, metrics, loading, corr,
          simulateBtnDisabled, pendingTimers, lastRun, history, ops, tuning,
          resetSinceClick, call, ret>>

----------------------------------------------------------------------------
(* JavaScript number arithmetic *)

RECURSIVE Gcd(_, _)
Gcd(a, b) == IF b = 0 THEN a ELSE Gcd(b, a % b)

AbsInt(n) == IF n < 0 THEN -n ELSE n

SgnInt(n) == IF n < 0 THEN -1 ELSE IF n = 0 THEN 0 ELSE 1

\* the pair for p/q, q # 0, in lowest terms with a positive denominator
R(p, q) ==
    LET g == Gcd(AbsInt(p), AbsInt(q))
        s == IF q < 0 THEN -1 ELSE 1
    IN  <<(s * p) \div g, (s * q) \div g>>

I(n) == <<n, 1>>

NaN == <<0, 0>>
PInf == <<1, 0>>
NInf == <<-1, 0>>
Zero == <<0, 1>>
One == <<1, 1>>

IsNaN(a) == a = NaN

\* isFinite(a)
IsFinite(a) == a[2] # 0

IsZero(a) == a = Zero

\* the sign of a number that is not NaN: -1, 0 or 1
Sgn(a) == SgnInt(a[1])

\* an infinity of sign s (s # 0)
InfOf(s) == IF s > 0 THEN PInf ELSE NInf

Neg(a) == <<-a[1], a[2]>>

Add(a, b) ==
    IF IsNaN(a) \/ IsNaN(b) THEN NaN
    ELSE IF ~IsFinite(a) THEN (IF ~IsFinite(b) /\ b # a THEN NaN ELSE a)
    ELSE IF ~IsFinite(b) THEN b
    ELSE LET g == Gcd(a[2], b[2])
         IN  R(a[1] * (b[2] \div g) + b[1] * (a[2] \div g), (a[2] \div g) * b[2])

Sub(a, b) == Add(a, Neg(b))

Mul(a, b) ==
    IF IsNaN(a) \/ IsNaN(b) THEN NaN
    ELSE IF ~IsFinite(a) \/ ~IsFinite(b)
         THEN (IF Sgn(a) * Sgn(b) = 0 THEN NaN ELSE InfOf(Sgn(a) * Sgn(b)))
    ELSE LET g1 == Gcd(AbsInt(a[1]), b[2])
             g2 == Gcd(AbsInt(b[1]), a[2])
         IN  <<(a[1] \div g1) * (b[1] \div g2), (a[2] \div g2) * (b[2] \div g1)>>

\* a / b: x/0 is an infinity of the sign of x, 0/0 and Infinity/Infinity are NaN
Div(a, b) ==
    IF IsNaN(a) \/ IsNaN(b) THEN NaN
    ELSE IF ~IsFinite(b) THEN (IF IsFinite(a) THEN Zero ELSE NaN)
    ELSE IF IsZero(b) THEN (IF Sgn(a) = 0 THEN NaN ELSE InfOf(Sgn(a)))
    ELSE IF ~IsFinite(a) THEN InfOf(Sgn(a) * Sgn(b))
    ELSE Mul(a, R(b[2], b[1]))

\* a < b; every comparison with NaN is false
Lt(a, b) ==
    /\ ~IsNaN(a)
    /\ ~IsNaN(b)
    /\ a # b
    /\ IF ~IsFinite(a) THEN a = NInf
       ELSE IF ~IsFinite(b) THEN b = PInf
       ELSE a[1] * b[2] < b[1] * a[2]

Gt(a, b) == Lt(b, a)

\* a === b on numbers
Eq(a, b) == ~IsNaN(a) /\ ~IsNaN(b) /\ a = b

Le(a, b) == Lt(a, b) \/ Eq(a, b)

Ge(a, b) == Le(b, a)

\* Math.abs
Abs(a) == IF IsNaN(a) THEN NaN ELSE <<AbsInt(a[1]), a[2]>>

\* Math.floor
Floor(a) == IF IsFinite(a) THEN I(a[1] \div a[2]) ELSE a

\* Math.sign
Sign(a) == IF IsNaN(a) THEN NaN ELSE I(Sgn(a))

\* Math.min(a, b)
Min2(a, b) == IF IsNaN(a) \/ IsNaN(b) THEN NaN ELSE IF Lt(b, a) THEN b ELSE a

\* v || 0 for a number or undefined v (undefined is passed as NaN): NaN and 0 are falsy
OrZero(v) == IF IsNaN(v) \/ IsZero(v) THEN Zero ELSE v

\* Math.sin(2*Math.PI*q) where the floating-point result is exact: 0 at q = 0,
\* 1 at a quarter turn, -1 at three quarters.  At the half turns Math.sin
\* returns a tiny non-zero number, which the exact arithmetic cannot hold: the
\* bounded inputs reach none.
SinTurns(q) ==
    IF ~IsFinite(q) THEN NaN
    ELSE LET r == Mul(I(4), q)
         IN  CASE r = Zero -> Zero
               [] r[2] = 1 /\ r[1] % 4 = 1 -> One
               [] r[2] = 1 /\ r[1] % 4 = 3 -> I(-1)

----------------------------------------------------------------------------
(* Vectors and matrices: sequences, indexed from 1 *)

\* the sequence f[1], ..., f[n] of a function f on 1..n, as a tuple
Tup(f) == f \o <<>>

\* new Array(n).fill(v)
Fill(n, v) == Tup([i \in 1..n |-> v])

\* arr.reduce((sum, val, j) => sum + val * x[j], 0): left to right from 0;
\* an index past the end of x reads undefined, which makes the product NaN
RECURSIVE DotAcc(_, _, _, _)
DotAcc(c, x, j, sum) ==
    IF j > Len(c) THEN sum
    ELSE DotAcc(c, x, j + 1, Add(sum, Mul(c[j], IF j <= Len(x) THEN x[j] ELSE NaN)))

Dot(c, x) == DotAcc(c, x, 1, Zero)

----------------------------------------------------------------------------
(* The plant: transfer function to state space *)

\* the value of a call that threw instead of returning matrices
Thrown == [thrown |-> TRUE, A |-> <<>>, B |-> <<>>, C |-> <<>>, D |-> NaN]

\* a conversion that differs from the one of copia in the last row of A, which
\* lists the denominator coefficients from the highest power down
tfToStateSpaceForwardRow(num, den) ==
    IF Len(den) > 0 /\ Eq(den[1], Zero) THEN Thrown
    ELSE IF Len(den) - 1 < 0 THEN Thrown
    ELSE IF (Len(den) - 1) - Len(num) + 1 < 0 THEN Thrown
    ELSE LET den_norm == den[1]
             denN == Tup([i \in 1..Len(den) |-> Div(den[i], den_norm)])
             numN == Tup([i \in 1..Len(num) |-> Div(num[i], den_norm)])
             n == Len(denN) - 1
             num_padded == Fill(n - Len(numN) + 1, Zero) \o numN
         IN  [thrown |-> FALSE,
              A |-> Tup([i \in 1..n |-> Tup([j \in 1..n |->
                        IF i = n THEN Neg(denN[j + 1])
                        ELSE IF j = i + 1 THEN One ELSE Zero])]),
              B |-> Tup([i \in 1..n |-> IF i = n THEN One ELSE Zero]),
              C |-> SubSeq(num_padded, 2, Len(num_padded)),
              D |-> num_padded[1]]

\* copia: tfToStateSpace(num, den)
tfToStateSpaceCopia(num, den) ==
    IF Len(den) > 0 /\ Eq(den[1], Zero) THEN Thrown
    ELSE IF Len(den) - 1 < 0 THEN Thrown
    ELSE IF (Len(den) - 1) - Len(num) + 1 < 0 THEN Thrown
    ELSE LET den_norm == den[1]
             denN == Tup([i \in 1..Len(den) |-> Div(den[i], den_norm)])
             numN == Tup([i \in 1..Len(num) |-> Div(num[i], den_norm)])
             n == Len(denN) - 1
             num_padded == Fill(n - Len(numN) + 1, Zero) \o numN
         IN  [thrown |-> FALSE,
              A |-> Tup([i \in 1..n |-> Tup([j \in 1..n |->
                        IF i = n THEN Neg(denN[n - j + 2])
                        ELSE IF j = i + 1 THEN One ELSE Zero])]),
              B |-> Tup([i \in 1..n |-> IF i = n THEN One ELSE Zero]),
              C |-> SubSeq(num_padded, 2, Len(num_padded)),
              D |-> num_padded[1]]

\* profesor: tfToStateSpace(num, den).  den[0] of an empty array is undefined
\* and dividing by it gives NaN; the first loop that fills C is overwritten
\* entry by entry by the second one, whose values are the ones returned.
tfToStateSpaceProfesor(num, den) ==
    LET den_norm == IF Len(den) > 0 THEN den[1] ELSE NaN
        denN == Tup([i \in 1..Len(den) |-> Div(den[i], den_norm)])
        numN == Tup([i \in 1..Len(num) |-> Div(num[i], den_norm)])
        denS == IF Len(denN) > 0 THEN Tail(denN) ELSE <<>>
        n == Len(denS)
    IN  IF n - Len(numN) + 1 < 0 THEN Thrown
        ELSE LET num_padded == Fill(n - Len(numN) + 1, Zero) \o numN
             IN  [thrown |-> FALSE,
                  A |-> Tup([i \in 1..n |-> Tup([j \in 1..n |->
                            IF i = n THEN Neg(denS[n - j + 1])
                            ELSE IF j = i + 1 THEN One ELSE Zero])]),
                  B |-> Tup([i \in 1..n |-> IF i = n THEN One ELSE Zero]),
                  C |-> Tup([i \in 1..n |->
                            Sub(num_padded[Len(num_padded) - i + 1],
                                Mul(num_padded[1], denS[n - i + 1]))]),
                  D |-> num_padded[1]]

tfToStateSpace(pg, num, den) ==
    IF pg = "profesor" THEN tfToStateSpaceProfesor(num, den)
    ELSE tfToStateSpaceCopia(num, den)

----------------------------------------------------------------------------
(* The integrator *)

\* f(x_vec) of rungeKutta: A*x_vec + B*u, row by row
RkF(A, B, xv, u) ==
    Tup([i \in 1..Len(xv) |-> Add(DotAcc(A[i], xv, 1, Zero), Mul(B[i], u))])

Scale(v, c) == Tup([i \in 1..Len(v) |-> Mul(v[i], c)])

\* x.map((v, i) => v + c * k[i])
Axpy(x, c, k) == Tup([i \in 1..Len(x) |-> Add(x[i], Mul(c, k[i]))])

\* x + (k1 + 2*k2 + 2*k3 + k4) / 6, component by component
RkSum(x, k1, k2, k3, k4) ==
    Tup([i \in 1..Len(x) |->
        Add(x[i], Div(Add(Add(Add(k1[i], Mul(I(2), k2[i])), Mul(I(2), k3[i])),
                          k4[i]), I(6)))])

\* the slopes are computed one after the other, each from the one before
RkFrom3(A, B, x, u, dt, k1, k2, k3) ==
    RkSum(x, k1, k2, k3, Scale(RkF(A, B, Axpy(x, One, k3), u), dt))

\* an integrator whose third slope is taken at the point of the second
RkFrom2AtFirstSlope(A, B, x, u, dt, k1, k2) ==
    RkFrom3(A, B, x, u, dt, k1, k2, Scale(RkF(A, B, Axpy(x, R(1, 2), k1), u), dt))

RkFrom2(A, B, x, u, dt, k1, k2) ==
    RkFrom3(A, B, x, u, dt, k1, k2, Scale(RkF(A, B, Axpy(x, R(1, 2), k2), u), dt))

RkFrom1(A, B, x, u, dt, k1) ==
    RkFrom2(A, B, x, u, dt, k1, Scale(RkF(A, B, Axpy(x, R(1, 2), k1), u), dt))

rungeKutta(A, B, x, u, dt) ==
    RkFrom1(A, B, x, u, dt, Scale(RkF(A, B, x, u), dt))

----------------------------------------------------------------------------
(* The reference signal *)

generateReference(pg, t, type, amp, freq) ==
    CASE type = "step" -> amp
      [] type = "ramp" ->
            IF pg = "profesor" THEN Mul(amp, Min2(One, t)) ELSE Mul(amp, t)
      [] type = "sine" -> Mul(amp, SinTurns(Mul(freq, t)))
      [] type = "square" -> Mul(amp, Sign(SinTurns(Mul(freq, t))))
      [] OTHER -> amp

----------------------------------------------------------------------------
(* The simulation loop of copia and profesor (runSimulation) *)

\* saturation bounds and derivative-filter time constant of copia
u_max == 5
u_min == -5
tau_d == R(1, 20)

\* the loop variables before the first step
InitialLoopState(ss) ==
    [x |-> Fill(Len(ss.A), Zero), integral |-> Zero, prevError |-> Zero,
     filteredDerivative |-> Zero,
     time |-> <<>>, reference |-> <<>>, output |-> <<>>, error |-> <<>>,
     control |-> <<>>, trace |-> <<>>]

\* an anti-windup branch that clamps the output and leaves the integral alone
AntiWindupIntegralKept(integral, u_unclamped, ki) == integral

\* the integral after the anti-windup branch of copia
AntiWindupIntegral(integral, u_unclamped, ki) ==
    IF Gt(u_unclamped, I(u_max))
    THEN Sub(integral, Div(Sub(u_unclamped, I(u_max)), ki))
    ELSE IF Lt(u_unclamped, I(u_min))
    THEN Sub(integral, Div(Sub(u_unclamped, I(u_min)), ki))
    ELSE integral

\* u after the anti-windup branch of copia
Clamp(u_unclamped) ==
    IF Gt(u_unclamped, I(u_max)) THEN I(u_max)
    ELSE IF Lt(u_unclamped, I(u_min)) THEN I(u_min)
    ELSE u_unclamped

\* The loop body is a chain of operators, one per group of statements; each
\* receives the values computed before it in the record m.

\* y_plant = C*x + D*(control[i-1] || 0)
PlantOutput(ss, st, i) ==
    Add(Dot(ss.C, st.x), Mul(ss.D, OrZero(IF i > 0 THEN st.control[i] ELSE NaN)))

\* a measurement whose disturbance spans twice the amplitude to either side
MeasureWide(pg, cfg, t, y_plant, rnd) ==
    [t |-> t,
     ref |-> generateReference(pg, t, cfg.controlType, cfg.amplitude, cfg.frequency),
     y_plant |-> y_plant,
     y |-> IF pg = "copia"
           THEN Add(y_plant, Mul(Mul(Sub(rnd, R(1, 2)), I(4)), cfg.disturbance))
           ELSE y_plant]

\* the time, the reference and the measured output of step i; rnd is the
\* value Math.random() returns in this pass
Measure(pg, cfg, t, y_plant, rnd) ==
    [t |-> t,
     ref |-> generateReference(pg, t, cfg.controlType, cfg.amplitude, cfg.frequency),
     y_plant |-> y_plant,
     y |-> IF pg = "copia"
           THEN Add(y_plant, Mul(Mul(Sub(rnd, R(1, 2)), I(2)), cfg.disturbance))
           ELSE y_plant]

\* the error, the accumulated integral and the raw derivative
ErrorTerms(cfg, st, i, m, currentError) ==
    m @@ [currentError |-> currentError,
          integralAcc |-> Add(st.integral, Mul(currentError, cfg.dt)),
          rawDerivative |-> IF i > 0
                            THEN Div(Sub(currentError, st.prevError), cfg.dt)
                            ELSE Zero]

Filtering(pg, cfg) == pg = "copia" /\ cfg.derivativeFilter = "firstOrder"

\* filteredDerivative after the derivative-filter branch
FilteredDerivative(pg, cfg, st, m, alpha) ==
    IF Filtering(pg, cfg)
    THEN Add(Mul(alpha, m.rawDerivative), Mul(Sub(One, alpha), st.filteredDerivative))
    ELSE st.filteredDerivative

DerivativeTerm(pg, cfg, m, filtered) ==
    m @@ [filtered |-> filtered,
          derivative |-> IF Filtering(pg, cfg) THEN filtered ELSE m.rawDerivative]

\* Kp*e + Ki*integral + Kd*derivative
PidOutput(cfg, m) ==
    Add(Add(Mul(cfg.kp, m.currentError), Mul(cfg.ki, m.integralAcc)),
        Mul(cfg.kd, m.derivative))

Clamping(pg, cfg) == pg = "copia" /\ cfg.antiWindup = "clamping"

\* u and the integral after the anti-windup branch
ControlTerm(pg, cfg, m, u_unclamped) ==
    m @@ [u_unclamped |-> u_unclamped,
          u |-> IF Clamping(pg, cfg) THEN Clamp(u_unclamped) ELSE u_unclamped,
          integralEnd |-> IF Clamping(pg, cfg)
                          THEN AntiWindupIntegral(m.integralAcc, u_unclamped, cfg.ki)
                          ELSE m.integralAcc]

\* a step that advances the plant with the control value of the step before
AdvanceWithPreviousControl(cfg, ss, st, m) ==
    [x |-> rungeKutta(ss.A, ss.B, st.x,
                     IF Len(st.control) = 0 THEN Zero
                     ELSE OrZero(st.control[Len(st.control)]), cfg.dt),
     integral |-> m.integralEnd, prevError |-> m.currentError,
     filteredDerivative |-> m.filtered,
     time |-> Append(st.time, m.t),
     reference |-> Append(st.reference, m.ref),
     output |-> Append(st.output, m.y),
     error |-> Append(st.error, m.currentError),
     control |-> Append(st.control, m.u),
     trace |-> Append(st.trace,
                 [y_plant |-> m.y_plant, integralAcc |-> m.integralAcc,
                  derivative |-> m.derivative, u_unclamped |-> m.u_unclamped,
                  integralEnd |-> m.integralEnd, xBefore |-> st.x])]

\* the plant is advanced and the samples of the step are stored
Advance(cfg, ss, st, m) ==
    [x |-> rungeKutta(ss.A, ss.B, st.x, m.u, cfg.dt),
     integral |-> m.integralEnd, prevError |-> m.currentError,
     filteredDerivative |-> m.filtered,
     time |-> Append(st.time, m.t),
     reference |-> Append(st.reference, m.ref),
     output |-> Append(st.output, m.y),
     error |-> Append(st.error, m.currentError),
     control |-> Append(st.control, m.u),
     trace |-> Append(st.trace,
                 [y_plant |-> m.y_plant, integralAcc |-> m.integralAcc,
                  derivative |-> m.derivative, u_unclamped |-> m.u_unclamped,
                  integralEnd |-> m.integralEnd, xBefore |-> st.x])]

StepFromDerivative(pg, cfg, ss, st, m) ==
    Advance(cfg, ss, st, ControlTerm(pg, cfg, m, PidOutput(cfg, m)))

StepFromError(pg, cfg, ss, st, m) ==
    StepFromDerivative(pg, cfg, ss, st,
        DerivativeTerm(pg, cfg, m,
            FilteredDerivative(pg, cfg, st, m, Div(cfg.dt, Add(tau_d, cfg.dt)))))

StepFromMeasure(pg, cfg, ss, st, i, m) ==
    StepFromError(pg, cfg, ss, st, ErrorTerms(cfg, st, i, m, Sub(m.ref, m.y)))

\* one pass of the loop body, step i (from 0)
LoopStep(pg, cfg, ss, st, i, rnd) ==
    StepFromMeasure(pg, cfg, ss, st, i,
        Measure(pg, cfg, Mul(I(i), cfg.dt), PlantOutput(ss, st, i), rnd))

\* steps i..steps-1 of the loop; rnds[i+1] is Math.random() of step i
RECURSIVE Loop(_, _, _, _, _, _, _)
Loop(pg, cfg, ss, st, i, steps, rnds) ==
    IF i >= steps THEN st
    ELSE Loop(pg, cfg, ss, LoopStep(pg, cfg, ss, st, i, rnds[i + 1]), i + 1, steps, rnds)

----------------------------------------------------------------------------
(* Metrics.  A metric display holds a number or NotApplicable, the model of *)
(* the texts '-' and 'N/A'; toFixed formatting is not modelled.             *)

NotApplicable == <<0, -1>>

\* arr[arr.length - 1]; undefined (NaN in arithmetic) for an empty array
Last(s) == IF Len(s) = 0 THEN NaN ELSE s[Len(s)]

\* Math.max(...arr)
RECURSIVE MaxAcc(_, _, _)
MaxAcc(s, j, m) ==
    IF j > Len(s) THEN m
    ELSE MaxAcc(s, j + 1, IF IsNaN(m) \/ IsNaN(s[j]) THEN NaN
                          ELSE IF Gt(s[j], m) THEN s[j] ELSE m)

MathMax(s) == MaxAcc(s, 1, NInf)

\* the first index i >= j with s[i] >= level, 0 when there is none
RECURSIVE FirstGe(_, _, _)
FirstGe(s, level, j) ==
    IF j > Len(s) THEN 0
    ELSE IF Ge(s[j], level) THEN j ELSE FirstGe(s, level, j + 1)

\* the largest index i <= j with |s[i] - centre| > tol, 0 when there is none
RECURSIVE LastOutside(_, _, _, _)
LastOutside(s, centre, tol, j) ==
    IF j < 1 THEN 0
    ELSE IF Gt(Abs(Sub(s[j], centre)), tol) THEN j
    ELSE LastOutside(s, centre, tol, j - 1)

\* arr.indexOf(v)
RECURSIVE IndexOf(_, _, _)
IndexOf(s, v, j) ==
    IF j > Len(s) THEN 0
    ELSE IF Eq(s[j], v) THEN j ELSE IndexOf(s, v, j + 1)

\* copia: displayMetrics(data).  thrown: settlingTime.toFixed on undefined
\* (empty series), after the overshoot and rise-time texts were written.
displayMetricsCopia(data, old) ==
    LET finalValue == Last(data.reference)
        peakValue == MathMax(data.output)
        raw == Mul(Div(Sub(peakValue, finalValue), finalValue), I(100))
        overshoot == IF Gt(finalValue, Zero)
                     THEN (IF Lt(raw, Zero) THEN Zero ELSE raw)
                     ELSE Zero
        tolerance == Mul(R(1, 20), finalValue)
        iOut == LastOutside(data.output, finalValue, tolerance, Len(data.output))
        i10 == FirstGe(data.output, Mul(R(1, 10), finalValue), 1)
        i90 == FirstGe(data.output, Mul(R(9, 10), finalValue), 1)
        riseTime == IF i10 # 0 /\ i90 # 0
                    THEN Sub(data.time[i90], data.time[i10])
                    ELSE NotApplicable
        steadyStateError == Abs(Sub(finalValue, Last(data.output)))
    IN  IF iOut = 0 /\ Len(data.time) = 0
        THEN [thrown |-> TRUE,
              metrics |-> [old EXCEPT !.overshoot = overshoot, !.riseTime = riseTime]]
        ELSE [thrown |-> FALSE,
              metrics |-> [old EXCEPT
                  !.overshoot = overshoot,
                  !.riseTime = riseTime,
                  !.settlingTime = IF iOut # 0 THEN data.time[iOut]
                                   ELSE data.time[Len(data.time)],
                  !.steadyStateError = steadyStateError]]

\* profesor: displayMetrics(data); controlType is read from the page
displayMetricsProfesor(data, controlType, old) ==
    LET finalRef == Last(data.reference)
        steadyStateValue == Last(data.output)
        maxValue == MathMax(data.output)
        overshoot == IF controlType = "step" /\ Gt(finalRef, Zero)
                     THEN Mul(Div(Sub(maxValue, finalRef), finalRef), I(100))
                     ELSE Zero
        i90 == FirstGe(data.output, Mul(R(9, 10), finalRef), 1)
        i10 == FirstGe(data.output, Mul(R(1, 10), finalRef), 1)
        found10 == i10 # 0 /\ (i90 = 0 \/ i10 <= i90)
        riseTime == IF found10 /\ i90 # 0
                    THEN Sub(data.time[i90], data.time[i10])
                    ELSE Zero
        iOut == LastOutside(data.output, steadyStateValue,
                            Mul(R(1, 50), Abs(finalRef)), Len(data.output) )
    IN  [thrown |-> FALSE,
         metrics |-> [old EXCEPT
             !.steadyStateError = Sub(finalRef, steadyStateValue),
             !.overshoot = overshoot,
             !.riseTime = riseTime,
             !.settlingTime = IF iOut # 0 THEN data.time[iOut] ELSE Zero]]

\* the index the backward scan of calculateMetrics reports (time[i + 1] of the
\* first sample outside the band met after a sample inside it, time[0] when the
\* scan ends inside the band), 0 for 'N/A'; j runs from the end, settled is the flag
RECURSIVE SettlingIndex(_, _, _, _, _)
SettlingIndex(s, lower, upper, j, settled) ==
    IF j < 1 THEN 0
    ELSE IF Ge(s[j], lower) /\ Le(s[j], upper)
    THEN (IF j = 1 THEN 1 ELSE SettlingIndex(s, lower, upper, j - 1, TRUE))
    ELSE IF settled THEN j + 1
    ELSE SettlingIndex(s, lower, upper, j - 1, FALSE)

\* corregida: calculateMetrics(); setpoint is read from the page
calculateMetrics(h, setpoint, old) ==
    LET systemOutput == h.systemOutputHistory
        time == h.timeHistory
        maxOutput == MathMax(systemOutput)
        overshoot == IF Gt(maxOutput, setpoint)
                     THEN Mul(Div(Sub(maxOutput, setpoint), setpoint), I(100))
                     ELSE Zero
        startValue == IF Len(systemOutput) > 0 THEN systemOutput[1] ELSE NaN
        tenPercentValue == Add(startValue, Mul(R(1, 10), Sub(setpoint, startValue)))
        ninetyPercentValue == Add(startValue, Mul(R(9, 10), Sub(setpoint, startValue)))
        i90 == FirstGe(systemOutput, ninetyPercentValue, 1)
        i10 == FirstGe(systemOutput, tenPercentValue, 1)
        found10 == i10 # 0 /\ (i90 = 0 \/ i10 <= i90)
        tolerance == Mul(R(1, 50), setpoint)
        iSet == SettlingIndex(systemOutput, Sub(setpoint, tolerance),
                              Add(setpoint, tolerance), Len(systemOutput), FALSE)
    IN  [overshoot |-> overshoot,
         riseTime |-> IF found10 /\ i90 # 0 THEN Sub(time[i90], time[i10])
                      ELSE NotApplicable,
         peakTime |-> IF Gt(maxOutput, setpoint)
                      THEN time[IndexOf(systemOutput, maxOutput, 1)]
                      ELSE NotApplicable,
         settlingTime |-> IF iSet # 0 THEN time[iSet] ELSE NotApplicable,
         steadyStateError |-> Sub(setpoint, Last(systemOutput))]

----------------------------------------------------------------------------
(* runSimulation of copia and profesor *)

\* the longest run the model executes
MaxSteps == 2

NotNaN(a) == ~IsNaN(a)

HasNaN(s) == \E i \in 1..Len(s) : IsNaN(s[i])

\* the values runSimulation reads from the page d; profesor has no anti-windup,
\* derivative-filter or disturbance control and its loop has none of the three
ReadConfig(pg, d) ==
    [kp |-> d.kp, ki |-> d.ki, kd |-> d.kd, simTime |-> d.simTime, dt |-> d.dt,
     controlType |-> d.controlType, amplitude |-> d.amplitude,
     frequency |-> d.frequency,
     antiWindup |-> IF pg = "copia" THEN d.antiWindup ELSE "none",
     derivativeFilter |-> IF pg = "copia" THEN d.derivativeFilter ELSE "none",
     disturbance |-> IF pg = "copia" THEN d.disturbance ELSE Zero,
     numerator |-> IF pg = "profesor" THEN SelectSeq(d.numerator, NotNaN)
                   ELSE d.numerator,
     denominator |-> IF pg = "profesor" THEN SelectSeq(d.denominator, NotNaN)
                     ELSE d.denominator]

\* Math.floor(simTime / dt)
StepsOf(cfg) == Floor(Div(cfg.simTime, cfg.dt))

\* the early return for invalid coefficients
Rejects(pg, cfg) ==
    \/ Len(cfg.denominator) = 0
    \/ Len(cfg.numerator) = 0
    \/ pg = "copia" /\ (HasNaN(cfg.denominator) \/ HasNaN(cfg.numerator))

\* Array.from({length: steps}) and new Array(steps) throw a RangeError for a
\* length that is NaN, negative or infinite
BadLength(steps) == IsNaN(steps) \/ ~IsFinite(steps) \/ Lt(steps, Zero)

\* whether the run of page d stays within the steps the model executes
WithinSteps(pg, d) ==
    LET steps == StepsOf(ReadConfig(pg, d))
    IN  BadLength(steps) \/ steps[1] <= MaxSteps

SeriesOf(st) ==
    [time |-> st.time, reference |-> st.reference, output |-> st.output,
     error |-> st.error, control |-> st.control]

\* what one call of runSimulation does, on page d with simulationData = oldData
\* and the metric displays oldMetrics; rnds are the values of Math.random().
\*   outcome  "rejected" (early return), "threw" (an exception left the
\*            function) or "completed"
\*   stored   whether simulationData was assigned
\*   loading  whether the loading indicator of copia is visible afterwards
NoResult(cfg, oldData, oldMetrics) ==
    [outcome |-> "rejected", stored |-> FALSE, cfg |-> cfg,
     ss |-> Thrown, steps |-> 0, trace |-> <<>>,
     simulationData |-> oldData, metrics |-> oldMetrics, loading |-> FALSE]

\* simulationData = {...}; displayMetrics(simulationData)
RunShown(pg, cfg, ss, steps, st, data, shown) ==
    [outcome |-> IF shown.thrown THEN "threw" ELSE "completed",
     stored |-> TRUE, cfg |-> cfg, ss |-> ss, steps |-> steps,
     trace |-> st.trace, simulationData |-> data, metrics |-> shown.metrics,
     loading |-> (pg = "copia" /\ shown.thrown)]

RunStored(pg, d, cfg, ss, steps, st, data, oldMetrics) ==
    RunShown(pg, cfg, ss, steps, st, data,
        IF pg = "copia" THEN displayMetricsCopia(data, oldMetrics)
        ELSE displayMetricsProfesor(data, d.controlType, oldMetrics))

RunLooped(pg, d, cfg, ss, steps, st, oldMetrics) ==
    RunStored(pg, d, cfg, ss, steps, st, SeriesOf(st), oldMetrics)

\* from the conversion of the plant on
RunPlant(pg, d, cfg, ss, steps, oldData, oldMetrics, rnds) ==
    IF ss.thrown
    THEN [NoResult(cfg, oldData, oldMetrics) EXCEPT
              !.outcome = "threw", !.loading = (pg = "copia")]
    ELSE IF BadLength(steps)
    THEN [NoResult(cfg, oldData, oldMetrics) EXCEPT
              !.outcome = "threw", !.ss = ss, !.loading = (pg = "copia")]
    ELSE RunLooped(pg, d, cfg, ss, steps[1],
                   Loop(pg, cfg, ss, InitialLoopState(ss), 0, steps[1], rnds),
                   oldMetrics)

RunConfig(pg, d, cfg, oldData, oldMetrics, rnds) ==
    IF Rejects(pg, cfg) THEN NoResult(cfg, oldData, oldMetrics)
    ELSE RunPlant(pg, d, cfg, tfToStateSpace(pg, cfg.numerator, cfg.denominator),
                  StepsOf(cfg), oldData, oldMetrics, rnds)

runSimulation(pg, d, oldData, oldMetrics, rnds) ==
    RunConfig(pg, d, ReadConfig(pg, d), oldData, oldMetrics, rnds)

----------------------------------------------------------------------------
(* simulatePID of corregida *)

\* g and L of the page
g == R(49, 5)
L == One

\* the validation that precedes the run
InputsValid(d) ==
    /\ IsFinite(d.kp)
    /\ IsFinite(d.ki)
    /\ IsFinite(d.kd)
    /\ IsFinite(d.setpoint)
    /\ IsFinite(d.timeStep)
    /\ IsFinite(d.simulationTime)
    /\ ~Le(d.timeStep, Zero)
    /\ ~Le(d.simulationTime, Zero)

\* a reset that leaves integralError as the run before left it
ResetVariablesButIntegral(c) ==
    [theta |-> Zero, omega |-> Zero, integralError |-> c.integralError,
     previousError |-> Zero, time |-> Zero,
     timeHistory |-> <<>>, systemOutputHistory |-> <<>>,
     controlSignalHistory |-> <<>>, referenceSignalHistory |-> <<>>]

\* "Resetear variables de simulacion"
ResetVariables(c) ==
    [theta |-> Zero, omega |-> Zero, integralError |-> Zero,
     previousError |-> Zero, time |-> Zero,
     timeHistory |-> <<>>, systemOutputHistory |-> <<>>,
     controlSignalHistory |-> <<>>, referenceSignalHistory |-> <<>>]

\* one pass of the loop body, a chain of operators: the samples are pushed
PidPush(c, d, error, integralError, controlSignal, omega, theta, time) ==
    [theta |-> theta, omega |-> omega, integralError |-> integralError,
     previousError |-> error, time |-> time,
     timeHistory |-> Append(c.timeHistory, time),
     systemOutputHistory |-> Append(c.systemOutputHistory, theta),
     controlSignalHistory |-> Append(c.controlSignalHistory, controlSignal),
     referenceSignalHistory |-> Append(c.referenceSignalHistory, d.setpoint)]

\* theta += omega * timeStep; time += timeStep
PidMove(c, d, error, integralError, controlSignal, omega) ==
    PidPush(c, d, error, integralError, controlSignal, omega,
            Add(c.theta, Mul(omega, d.timeStep)), Add(c.time, d.timeStep))

\* alpha = (-g / L) * theta + controlSignal; omega += alpha * timeStep
PidPlant(c, d, error, integralError, controlSignal) ==
    PidMove(c, d, error, integralError, controlSignal,
            Add(c.omega, Mul(Add(Mul(Div(Neg(g), L), c.theta), controlSignal),
                             d.timeStep)))

\* controlSignal = kp * error + ki * integralError + kd * derivativeError
PidControl(c, d, error, integralError) ==
    PidPlant(c, d, error, integralError,
             Add(Add(Mul(d.kp, error), Mul(d.ki, integralError)),
                 Mul(d.kd, Div(Sub(error, c.previousError), d.timeStep))))

PidError(c, d, error) ==
    PidControl(c, d, error, Add(c.integralError, Mul(error, d.timeStep)))

PidStep(c, d) == PidError(c, d, Sub(d.setpoint, c.theta))

\* for (let i = 0; i < simulationTime / timeStep; i++)
RECURSIVE PidLoop(_, _, _)
PidLoop(c, d, i) ==
    IF Lt(I(i), Div(d.simulationTime, d.timeStep))
    THEN PidLoop(PidStep(c, d), d, i + 1)
    ELSE c

\* whether the loop of page d ends within the steps the model executes
PidWithinSteps(d) ==
    ~InputsValid(d) \/ ~Lt(I(MaxSteps), Div(d.simulationTime, d.timeStep))

\* what one call of simulatePID does to the simulation variables c and the
\* metric displays
PidDone(c2, d, oldMetrics) ==
    [outcome |-> "completed", corr |-> c2,
     metrics |-> calculateMetrics(c2, d.setpoint, oldMetrics)]

simulatePID(c, d, oldMetrics) ==
    IF ~InputsValid(d)
    THEN [outcome |-> "rejected", corr |-> c, metrics |-> oldMetrics]
    ELSE PidDone(PidLoop(ResetVariables(c), d, 0), d, oldMetrics)

----------------------------------------------------------------------------
(* Ziegler-Nichols tuning: findTu and suggestZNPIDValues *)

RECURSIVE Pow10(_)
Pow10(k) == IF k = 0 THEN 1 ELSE 10 * Pow10(k - 1)

\* Number.prototype.toFixed(digits), the text modelled by the number it
\* denotes: the multiple of 10^-digits nearest to a, the one farther from zero
\* of two equally near; NaN and the infinities print as themselves
ToFixed(a, digits) ==
    IF ~IsFinite(a) THEN a
    ELSE IF Lt(a, Zero)
    THEN Neg(R(Floor(Add(Mul(Neg(a), I(Pow10(digits))), R(1, 2)))[1], Pow10(digits)))
    ELSE R(Floor(Add(Mul(a, I(Pow10(digits))), R(1, 2)))[1], Pow10(digits))

\* profesor: the times pushed by the loop over the latter half of the series,
\* i from Math.floor(output.length / 2) to output.length - 2; j is i + 1
RECURSIVE PeaksProfesor(_, _, _, _)
PeaksProfesor(output, time, j, peaks) ==
    IF j > Len(output) - 1 THEN peaks
    ELSE PeaksProfesor(output, time, j + 1,
             IF /\ Gt(output[j], output[j - 1])
                /\ Gt(output[j], output[j + 1])
                /\ Gt(output[j], One)
             THEN Append(peaks, time[j]) ELSE peaks)

\* copia: a time is pushed at the first sample that falls after a rise
RECURSIVE PeaksCopia(_, _, _, _, _)
PeaksCopia(output, time, j, rising, peaks) ==
    IF j > Len(output) THEN peaks
    ELSE IF Gt(output[j], output[j - 1])
    THEN PeaksCopia(output, time, j + 1, TRUE, peaks)
    ELSE IF Lt(output[j], output[j - 1]) /\ rising
    THEN PeaksCopia(output, time, j + 1, FALSE, Append(peaks, time[j]))
    ELSE PeaksCopia(output, time, j + 1, rising, peaks)

\* the peak times each page detects in a series
Peaks(pg, output, time) ==
    IF pg = "copia" THEN PeaksCopia(output, time, 2, FALSE, <<>>)
    ELSE PeaksProfesor(output, time, Len(output) \div 2 + 1, <<>>)

\* totalPeriod += peaks[i+1] - peaks[i]
RECURSIVE TotalPeriod(_, _, _)
TotalPeriod(peaks, i, total) ==
    IF i > Len(peaks) - 1 THEN total
    ELSE TotalPeriod(peaks, i + 1, Add(total, Sub(peaks[i + 1], peaks[i])))

\* profesor: tu, 0 with fewer than two peaks
TuOfPeaksProfesor(peaks) ==
    IF Len(peaks) >= 2
    THEN Div(TotalPeriod(peaks, 1, Zero), I(Len(peaks) - 1))
    ELSE Zero

\* copia: the value findTu returns
TuOfPeaksCopia(peaks) ==
    IF Len(peaks) >= 2
    THEN Sub(peaks[Len(peaks)], peaks[Len(peaks) - 1])
    ELSE Zero

\* the gains of the three rules without the factor 2 of the integral gain
suggestZNPIDValuesHalfKi(Ku, Tu) ==
    [P |-> [Kp |-> Mul(R(1, 2), Ku), Ki |-> Zero, Kd |-> Zero],
     PI |-> [Kp |-> Mul(R(9, 20), Ku),
             Ki |-> Div(Mul(R(9, 20), Ku), Div(Tu, R(6, 5))), Kd |-> Zero],
     PID |-> [Kp |-> Mul(R(3, 5), Ku),
              Ki |-> Div(Mul(R(3, 5), Ku), Tu),
              Kd |-> Mul(Mul(R(3, 5), Ku), Div(Tu, I(8)))]]

\* profesor: the object suggestions of suggestZNPIDValues
suggestZNPIDValuesProfesor(Ku, Tu) ==
    [P |-> [Kp |-> Mul(R(1, 2), Ku), Ki |-> Zero, Kd |-> Zero],
     PI |-> [Kp |-> Mul(R(9, 20), Ku),
             Ki |-> Div(Mul(R(9, 20), Ku), Div(Tu, R(6, 5))), Kd |-> Zero],
     PID |-> [Kp |-> Mul(R(3, 5), Ku),
              Ki |-> Div(Mul(R(3, 5), Ku), Div(Tu, I(2))),
              Kd |-> Mul(Mul(R(3, 5), Ku), Div(Tu, I(8)))]]

\* profesor: the numbers of the list written to zn-suggestions, each toFixed(2)
SuggestionHTML(s) ==
    <<[P |-> [Kp |-> ToFixed(s.P.Kp, 2)],
       PI |-> [Kp |-> ToFixed(s.PI.Kp, 2), Ki |-> ToFixed(s.PI.Ki, 2)],
       PID |-> [Kp |-> ToFixed(s.PID.Kp, 2), Ki |-> ToFixed(s.PID.Ki, 2),
                Kd |-> ToFixed(s.PID.Kd, 2)]]>>

\* copia: suggestZNPIDValues for the value of the tuningMethod select
suggestZNPIDValuesCopia(tuningMethod, Ku, Tu) ==
    CASE tuningMethod = "cohen-coon" ->
            [kp |-> Div(Mul(R(9, 10), Ku), R(27, 20)),
             ki |-> Div(Mul(R(27, 20), Ku), Mul(R(5, 2), Tu)),
             kd |-> Div(Mul(Mul(R(27, 100), Ku), Tu), R(27, 20))]
      [] tuningMethod = "imc" ->
            [kp |-> Mul(R(1, 2), Ku),
             ki |-> Div(Mul(R(1, 2), Ku), Tu),
             kd |-> Mul(Mul(R(1, 8), Ku), Tu)]
      [] OTHER ->
            [kp |-> Mul(R(3, 5), Ku),
             ki |-> Div(Mul(R(6, 5), Ku), Tu),
             kd |-> Mul(Mul(R(3, 40), Ku), Tu)]

\* profesor: what findTu(output, time) writes to the tuning panel, where the
\* slider znKpSlider holds znKp
findTuShown(znKp, peaks, tu) ==
    [kuValue |-> znKp,
     tuValue |-> IF Gt(tu, Zero) THEN ToFixed(tu, 3) ELSE NotApplicable,
     suggestions |-> IF Gt(tu, Zero)
                     THEN SuggestionHTML(suggestZNPIDValuesProfesor(znKp, tu))
                     ELSE <<>>,
     peaks |-> peaks, tu |-> tu]

findTuFromPeaks(znKp, peaks) == findTuShown(znKp, peaks, TuOfPeaksProfesor(peaks))

findTuProfesor(output, time, znKp) ==
    findTuFromPeaks(znKp, Peaks("profesor", output, time))

\* copia: the value findTu(output, time) returns
findTuCopia(output, time) == TuOfPeaksCopia(Peaks("copia", output, time))

----------------------------------------------------------------------------
(* The pages *)

\* the user events of one behaviour
MaxOps == 3

\* values typed into or chosen for the input elements
KpValues == {One, I(2)}
KiValues == {R(1, 2), Zero}
KdValues == {R(1, 10), Zero}
GainTexts == {One, NaN}
SimTimeValues == {I(2), I(3), Zero}
DtValues == {One, I(2), Zero}
AmplitudeValues == {One, I(6), Zero, NaN}
FrequencyValues == {R(1, 4), R(3, 4)}
ControlTypes == {"step", "ramp", "sine", "square"}
AntiWindupModes == {"none", "clamping"}
DerivativeFilterModes == {"none", "firstOrder"}
DisturbanceValues == {Zero, R(1, 2)}
NumeratorValues == {<<One>>, <<One, One>>, <<NaN>>}
DenominatorValues == {<<One, I(3), I(2)>>, <<One, One>>, <<Zero, One>>, <<NaN>>}
RandomValues == {Zero, R(3, 4)}
SetpointValues == {One, Zero, I(-1)}
TimeStepValues == {R(1, 10), One, I(2), I(10), Zero}
SimulationTimeValues == {I(20), I(2), I(3)}

\* the predefined plants of handlePlantModelChange: numerator and denominator
PlantModels ==
    [motorDC |-> <<<<One>>, <<One, I(10), I(20)>>>>,
     termico |-> <<<<One>>, <<I(10), One>>>>,
     masaResorte |-> <<<<One>>, <<One, R(1, 2), One>>>>,
     tanque |-> <<<<One>>, <<I(10), One>>>>]

\* the options of the plantModel select the model chooses; the runs of 'termico'
\* and 'tanque' (10s + 1) leave the 32-bit integers of the exact arithmetic
PlantModelChoices == {"motorDC", "masaResorte", "custom"}

NoData == [time |-> <<>>, reference |-> <<>>, output |-> <<>>, error |-> <<>>,
           control |-> <<>>]

NoMetrics == [overshoot |-> NotApplicable, riseTime |-> NotApplicable,
              settlingTime |-> NotApplicable, steadyStateError |-> NotApplicable,
              peakTime |-> NotApplicable]

NoRun == [trigger |-> "none", outcome |-> "none", stored |-> FALSE, cfg |-> <<>>,
          ss |-> Thrown, steps |-> 0, trace |-> <<>>, repeat |-> FALSE]

NoCorr == [theta |-> Zero, omega |-> Zero, integralError |-> Zero,
           previousError |-> Zero, time |-> Zero,
           timeHistory |-> <<>>, systemOutputHistory |-> <<>>,
           controlSignalHistory |-> <<>>, referenceSignalHistory |-> <<>>]

\* the page as loaded: the sliders of the diagram start at 1, 0.5 and 0.1; the
\* other fields are set by the markup, which is not part of the sources, and
\* start here at a duration and a step whose run is MaxSteps long
CopiaDefaults ==
    [numerator |-> <<One>>, denominator |-> <<One, I(3), I(2)>>,
     kp |-> One, ki |-> R(1, 2), kd |-> R(1, 10),
     kpSlider |-> One, kiSlider |-> R(1, 2), kdSlider |-> R(1, 10),
     simTime |-> I(2), dt |-> One, controlType |-> "step",
     amplitude |-> One, frequency |-> R(1, 4),
     antiWindup |-> "none", derivativeFilter |-> "none", disturbance |-> Zero]

ProfesorDefaults ==
    [numerator |-> <<One>>, denominator |-> <<One, I(3), I(2)>>,
     kp |-> One, ki |-> R(1, 2), kd |-> R(1, 10),
     kpSlider |-> One, kiSlider |-> R(1, 2), kdSlider |-> R(1, 10),
     simTime |-> I(2), dt |-> One, controlType |-> "step",
     amplitude |-> One, frequency |-> R(1, 4)]

\* the values resetSimulation restores
CorregidaDefaults ==
    [kp |-> One, ki |-> R(1, 2), kd |-> R(1, 5), setpoint |-> One,
     timeStep |-> R(1, 10), simulationTime |-> I(20)]

\* the values of Math.random() a run of page d draws: one per step.  With a
\* disturbance amplitude of 0 the term (Math.random() - 0.5) * 2 * 0 is 0 for
\* every draw, and profesor draws none: one sequence stands for all.
RandomDraws(pg, d) ==
    LET cfg == ReadConfig(pg, d)
        steps == StepsOf(cfg)
        n == IF BadLength(steps) \/ Rejects(pg, cfg) THEN 0 ELSE steps[1]
    IN  IF pg = "copia" /\ ~IsZero(cfg.disturbance)
        THEN {Tup(f) : f \in [1..n -> RandomValues]}
        ELSE {Fill(n, Zero)}

\* the ghost record of a call of runSimulation: what triggered it, what it
\* read and did, and whether a run with the same configuration completed before
RunRecord(r, trigger, hist) ==
    [trigger |-> trigger, outcome |-> r.outcome, stored |-> r.stored,
     cfg |-> r.cfg, ss |-> r.ss, steps |-> r.steps, trace |-> r.trace,
     repeat |-> \E h \in hist : h.cfg = r.cfg]

\* the completed runs without disturbance, each with the series it produced
Remember(hist, cfg, outcome, result) ==
    IF outcome = "completed" /\ IsZero(cfg.disturbance)
    THEN hist \cup {[cfg |-> cfg, result |-> result]}
    ELSE hist

\* runSimulation() on the page with input values d
Simulate(d, trigger) ==
    /\ WithinSteps(page, d)
    /\ \E rnds \in RandomDraws(page, d) :
          \E r \in {runSimulation(page, d, simulationData, metrics, rnds)} :
              /\ simulationData' = r.simulationData
              /\ metrics' = r.metrics
              /\ loading' = r.loading
              /\ lastRun' = RunRecord(r, trigger, history)
              /\ history' = Remember(history, r.cfg, r.outcome, r.simulationData)

Event == ops < MaxOps /\ ops' = ops + 1

OnlyPanel == UNCHANGED <<page, resetSinceClick, storage, corr, simulateBtnDisabled,
                         pendingTimers, call, ret>>

OnlyDom == UNCHANGED <<page, resetSinceClick, storage, corr, simulateBtnDisabled, pendingTimers,
                       tuning, call, ret>>

\* the range of a gain slider of the diagram (min and max attributes)
SliderMax(param) == CASE param = "kp" -> I(20) [] param = "ki" -> I(10) [] param = "kd" -> I(5)

\* the value a range input takes when its value is set to v: the middle of
\* the range for a text that is no number, and no value outside the range
SliderSanitize(param, v) ==
    IF ~IsFinite(v) THEN Div(SliderMax(param), I(2))
    ELSE IF Lt(v, Zero) THEN Zero
    ELSE IF Gt(v, SliderMax(param)) THEN SliderMax(param)
    ELSE v

SliderOf(param) == CASE param = "kp" -> "kpSlider" [] param = "ki" -> "kiSlider" [] param = "kd" -> "kdSlider"

SliderValues(param) == CASE param = "kp" -> KpValues [] param = "ki" -> KiValues [] param = "kd" -> KdValues

\* the parameter inputs of copia that re-run the simulation when changed
ParamValues(id) ==
    CASE id = "simTime" -> SimTimeValues
      [] id = "dt" -> DtValues
      [] id = "amplitude" -> AmplitudeValues
      [] id = "frequency" -> FrequencyValues
      [] id = "antiWindup" -> AntiWindupModes
      [] id = "derivativeFilter" -> DerivativeFilterModes

\* runButton click (copia, profesor)
RunButtonClick ==
    /\ page \in {"copia", "profesor"}
    /\ Event
    /\ Simulate(dom, "runButton")
    /\ UNCHANGED dom
    /\ OnlyDom

\* copia: change of simTime, dt, amplitude, frequency, antiWindup or derivativeFilter
ParamChange ==
    /\ page = "copia"
    /\ Event
    /\ \E id \in {"simTime", "dt", "amplitude", "frequency", "antiWindup",
                   "derivativeFilter"} :
          \E v \in ParamValues(id) \ {dom[id]} :
             /\ dom' = [dom EXCEPT ![id] = v]
             /\ Simulate(dom', "change")
    /\ OnlyDom

\* profesor: the same fields have no listener; the edit only changes the field
FieldEdit ==
    /\ page = "profesor"
    /\ Event
    /\ \E id \in {"simTime", "dt", "amplitude", "frequency"} :
          \E v \in ParamValues(id) \ {dom[id]} :
             dom' = [dom EXCEPT ![id] = v]
    /\ UNCHANGED <<simulationData, metrics, loading, lastRun, history>>
    /\ OnlyDom

\* input event of a gain slider (copia, profesor)
SliderInput ==
    /\ page \in {"copia", "profesor"}
    /\ Event
    /\ \E param \in {"kp", "ki", "kd"} :
          \E v \in SliderValues(param) \ {dom[SliderOf(param)]} :
             /\ dom' = [dom EXCEPT ![SliderOf(param)] = v, ![param] = v]
             /\ Simulate(dom', "slider")
    /\ OnlyDom

\* profesor: change event of a gain input
GainInputChange ==
    /\ page = "profesor"
    /\ Event
    /\ \E param \in {"kp", "ki", "kd"} :
          \E v \in (SliderValues(param) \cup GainTexts) \ {dom[param]} :
             /\ dom' = [dom EXCEPT ![param] = v,
                                   ![SliderOf(param)] = SliderSanitize(param, v)]
             /\ Simulate(dom', "gainInput")
    /\ OnlyDom

\* copia: input event of the disturbance slider
DisturbanceInput ==
    /\ page = "copia"
    /\ Event
    /\ \E v \in DisturbanceValues \ {dom.disturbance} :
          /\ dom' = [dom EXCEPT !.disturbance = v]
          /\ Simulate(dom', "disturbance")
    /\ OnlyDom

\* change of the numerator (copia, profesor)
NumeratorChange ==
    /\ page \in {"copia", "profesor"}
    /\ Event
    /\ \E v \in NumeratorValues \ {dom.numerator} :
          /\ dom' = [dom EXCEPT !.numerator = v]
          /\ Simulate(dom', "numerator")
    /\ OnlyDom

\* change of the denominator (copia, profesor)
DenominatorChange ==
    /\ page \in {"copia", "profesor"}
    /\ Event
    /\ \E v \in DenominatorValues \ {dom.denominator} :
          /\ dom' = [dom EXCEPT !.denominator = v]
          /\ Simulate(dom', "denominator")
    /\ OnlyDom

\* handleControlTypeChange (copia, profesor)
ControlTypeChange ==
    /\ page \in {"copia", "profesor"}
    /\ Event
    /\ \E v \in ControlTypes \ {dom.controlType} :
          /\ dom' = [dom EXCEPT !.controlType = v]
          /\ Simulate(dom', "controlType")
    /\ OnlyDom

\* copia: handlePlantModelChange; 'custom' leaves the coefficients as they are
PlantModelChange ==
    /\ page = "copia"
    /\ Event
    /\ \E model \in PlantModelChoices :
          /\ dom' = IF model = "custom" THEN dom
                     ELSE [dom EXCEPT !.numerator = PlantModels[model][1],
                                      !.denominator = PlantModels[model][2]]
          /\ Simulate(dom', "plantModel")
    /\ OnlyDom

\* the record saveConfig stores: the gains are read from the sliders
SavedConfig(d) ==
    [numerator |-> d.numerator, denominator |-> d.denominator,
     kp |-> d.kpSlider, ki |-> d.kiSlider, kd |-> d.kdSlider,
     simTime |-> d.simTime, dt |-> d.dt, controlType |-> d.controlType,
     amplitude |-> d.amplitude, frequency |-> d.frequency,
     antiWindup |-> d.antiWindup, derivativeFilter |-> d.derivativeFilter,
     disturbance |-> d.disturbance]

\* copia: saveConfig
SaveConfig ==
    /\ page = "copia"
    /\ Event
    /\ storage' = <<SavedConfig(dom)>>
    /\ UNCHANGED <<page, resetSinceClick, dom, simulationData, metrics, loading, corr,
                   simulateBtnDisabled, pendingTimers, lastRun, history, tuning,
                   call, ret>>

\* the input values after loadConfig wrote config to the page: the gains go
\* to the sliders
LoadedDom(d, config) ==
    [d EXCEPT !.numerator = config.numerator, !.denominator = config.denominator,
              !.kpSlider = SliderSanitize("kp", config.kp),
              !.kiSlider = SliderSanitize("ki", config.ki),
              !.kdSlider = SliderSanitize("kd", config.kd),
              !.simTime = config.simTime, !.dt = config.dt,
              !.controlType = config.controlType,
              !.amplitude = config.amplitude, !.frequency = config.frequency,
              !.antiWindup = config.antiWindup,
              !.derivativeFilter = config.derivativeFilter,
              !.disturbance = config.disturbance]

\* copia: loadConfig.  With a saved configuration it writes the page, then
\* handleControlTypeChange() runs the simulation and runSimulation() runs it
\* again; without one it only alerts.
LoadConfig ==
    /\ page = "copia"
    /\ Event
    /\ IF storage = <<>>
       THEN UNCHANGED <<dom, simulationData, metrics, loading, lastRun, history>>
       ELSE /\ dom' = LoadedDom(dom, storage[1])
            /\ WithinSteps(page, dom')
            /\ \E rnds1 \in RandomDraws(page, dom') :
                 \E rnds2 \in RandomDraws(page, dom') :
                   \E r1 \in {runSimulation(page, dom', simulationData, metrics, rnds1)} :
                   \E r2 \in {runSimulation(page, dom', r1.simulationData,
                                             r1.metrics, rnds2)} :
                   \E h1 \in {Remember(history, r1.cfg, r1.outcome,
                                       r1.simulationData)} :
                       /\ simulationData' = r2.simulationData
                       /\ metrics' = r2.metrics
                       /\ loading' = r2.loading
                       /\ lastRun' = RunRecord(r2, "loadConfig", h1)
                       /\ history' = Remember(h1, r2.cfg, r2.outcome,
                                              r2.simulationData)
    /\ OnlyDom

----------------------------------------------------------------------------
(* The tuning panel of copia and profesor *)

\* the positions the tuning Kp slider is moved to
ZnKpValues == {Zero, One, I(6)}

\* the panel as loaded: the markup, which is not part of the sources, sets the
\* texts; they start here as startZieglerNicholsTuning of copia leaves them.
\*   analysis  ghost: <<>> or the run findTu analysed last and what it found
\*   started   ghost: startZieglerNicholsTuning has run to its end
\*   raised    ghost: an exception left the latest handler of the panel
\*   event     ghost: the latest handler of the panel, "start" or "slider"
NoTuning ==
    [shown |-> FALSE, event |-> "none", znKp |-> Zero, znKpValue |-> Zero,
     kuValue |-> NotApplicable, tuValue |-> NotApplicable, suggestions |-> <<>>,
     analysis |-> <<>>, started |-> FALSE, raised |-> FALSE]

\* copia: click on startTuningButton, startZieglerNicholsTuning
StartTuningClick ==
    /\ page = "copia"
    /\ Event
    /\ tuning' = [tuning EXCEPT !.shown = TRUE, !.event = "start",
                                !.znKp = Zero, !.znKpValue = Zero,
                                !.kuValue = NotApplicable,
                                !.tuValue = NotApplicable,
                                !.analysis = <<>>, !.started = TRUE,
                                !.raised = FALSE]
    /\ UNCHANGED <<page, resetSinceClick, dom, storage, simulationData, metrics, loading, corr,
                   simulateBtnDisabled, pendingTimers, lastRun, history, call, ret>>

\* copia: input event of tuningKpSlider, handleZnKpChange; the slider lies in
\* tuningControls, hidden until tuning starts
TuningKpSliderInput ==
    /\ page = "copia"
    /\ tuning.shown
    /\ Event
    /\ \E kp \in ZnKpValues \ {tuning.znKp} : \E rnd \in RandomValues :
          tuning' = IF Gt(kp, I(5))
                    THEN [tuning EXCEPT !.event = "slider",
                                        !.znKp = kp, !.znKpValue = ToFixed(kp, 1),
                                        !.kuValue = ToFixed(kp, 1),
                                        !.tuValue = ToFixed(Add(R(5, 2), rnd), 2),
                                        !.raised = FALSE]
                    ELSE [tuning EXCEPT !.event = "slider",
                                        !.znKp = kp, !.znKpValue = ToFixed(kp, 1),
                                        !.raised = FALSE]
    /\ UNCHANGED <<page, resetSinceClick, dom, storage, simulationData, metrics, loading, corr,
                   simulateBtnDisabled, pendingTimers, lastRun, history, call, ret>>

\* profesor: the page after startZieglerNicholsTuning set the controller for
\* tuning and the reference to a step
TuningDom(d) ==
    [d EXCEPT !.ki = Zero, !.kiSlider = Zero, !.kd = Zero, !.kdSlider = Zero,
              !.controlType = "step"]

\* profesor: click on startZnButton, startZieglerNicholsTuning.
\* handleControlTypeChange() runs the simulation with the Kp of the page, then
\* Kp and the tuning slider are reset and runSimulation() runs it again; an
\* exception of the first run ends the handler.
StartZnClick ==
    /\ page = "profesor"
    /\ Event
    /\ WithinSteps(page, dom)
    /\ \E r1 \in {runSimulation(page, TuningDom(dom), simulationData, metrics,
                                Fill(MaxSteps, Zero))} :
          IF r1.outcome = "threw"
          THEN /\ dom' = TuningDom(dom)
               /\ simulationData' = r1.simulationData
               /\ metrics' = r1.metrics
               /\ loading' = r1.loading
               /\ lastRun' = RunRecord(r1, "startZn", history)
               /\ history' = history
               /\ tuning' = [tuning EXCEPT !.event = "start", !.raised = TRUE]
          ELSE /\ dom' = [TuningDom(dom) EXCEPT !.kp = Zero, !.kpSlider = Zero]
               /\ \E h1 \in {Remember(history, r1.cfg, r1.outcome,
                                      r1.simulationData)} :
                  \E r2 \in {runSimulation(page, dom', r1.simulationData,
                                           r1.metrics, Fill(MaxSteps, Zero))} :
                      /\ simulationData' = r2.simulationData
                      /\ metrics' = r2.metrics
                      /\ loading' = r2.loading
                      /\ lastRun' = RunRecord(r2, "startZn", h1)
                      /\ history' = Remember(h1, r2.cfg, r2.outcome,
                                             r2.simulationData)
                      /\ tuning' = [tuning EXCEPT
                                        !.event = "start",
                                        !.znKp = Zero, !.znKpValue = Zero,
                                        !.analysis = <<>>,
                                        !.started = (r2.outcome # "threw"),
                                        !.raised = (r2.outcome = "threw")]
    /\ OnlyPanel

\* profesor: the panel after findTu analysed the series data that the run
\* recorded in run left in simulationData
Analysed(t, znKp, run, found) ==
    [t EXCEPT !.event = "slider", !.znKp = znKp, !.znKpValue = znKp,
              !.kuValue = found.kuValue, !.tuValue = found.tuValue,
              !.suggestions = found.suggestions,
              !.analysis = <<[cfg |-> run.cfg, outcome |-> run.outcome,
                              peaks |-> found.peaks, tu |-> found.tu]>>,
              !.raised = FALSE]

\* profesor: input event of znKpSlider, handleZnKpChange; an exception of
\* runSimulation ends the handler before findTu
ZnKpSliderInput ==
    /\ page = "profesor"
    /\ Event
    /\ \E znKp \in ZnKpValues \ {tuning.znKp} :
          /\ dom' = [dom EXCEPT !.kp = znKp,
                                !.kpSlider = SliderSanitize("kp", znKp)]
          /\ Simulate(dom', "znKpSlider")
          /\ tuning' = IF lastRun'.outcome = "threw"
                       THEN [tuning EXCEPT !.event = "slider",
                                           !.znKp = znKp, !.znKpValue = znKp,
                                           !.raised = TRUE]
                       ELSE Analysed(tuning, znKp, lastRun',
                                findTuProfesor(simulationData'.output,
                                               simulationData'.time, znKp))
    /\ OnlyPanel

----------------------------------------------------------------------------
(* corregida *)

\* the four histories the chart and the metrics read
Histories(c) ==
    [timeHistory |-> c.timeHistory, systemOutputHistory |-> c.systemOutputHistory,
     controlSignalHistory |-> c.controlSignalHistory,
     referenceSignalHistory |-> c.referenceSignalHistory]

CorregidaValues(id) ==
    CASE id = "kp" -> KpValues \cup GainTexts
      [] id = "ki" -> KiValues
      [] id = "kd" -> KdValues
      [] id = "setpoint" -> SetpointValues
      [] id = "timeStep" -> TimeStepValues
      [] id = "simulationTime" -> SimulationTimeValues

\* the user edits one of the six inputs; no listener is attached to them
InputEdit ==
    /\ page = "corregida"
    /\ Event
    /\ \E id \in {"kp", "ki", "kd", "setpoint", "timeStep", "simulationTime"} :
          \E v \in CorregidaValues(id) \ {dom[id]} :
             dom' = [dom EXCEPT ![id] = v]
    /\ UNCHANGED <<simulationData, metrics, loading, lastRun, history>>
    /\ OnlyDom

\* click on simulateBtn: the button is disabled and simulatePID is scheduled
SimulateClick ==
    /\ page = "corregida"
    /\ ~simulateBtnDisabled
    /\ Event
    /\ simulateBtnDisabled' = TRUE
    /\ pendingTimers' = pendingTimers + 1
    /\ resetSinceClick' = FALSE
    /\ UNCHANGED <<page, dom, storage, simulationData, metrics, loading, corr,
                   lastRun, history, tuning, call, ret>>

\* a callback that enables the button only after a run that passed validation
TimerFiresEnablesAfterRun ==
    /\ page = "corregida"
    /\ pendingTimers > 0
    /\ PidWithinSteps(dom)
    /\ \E r \in {simulatePID(corr, dom, metrics)} :
           /\ corr' = r.corr
           /\ metrics' = r.metrics
           /\ lastRun' = [trigger |-> "simulateBtn", outcome |-> r.outcome,
                          stored |-> r.outcome = "completed", cfg |-> dom,
                          ss |-> Thrown,
                          steps |-> IF r.outcome = "completed"
                                    THEN Len(r.corr.timeHistory) ELSE 0,
                          trace |-> <<>>,
                          repeat |-> \E h \in history : h.cfg = dom]
           /\ history' = IF r.outcome = "completed"
                         THEN history \cup {[cfg |-> dom, result |-> Histories(r.corr)]}
                         ELSE history
    /\ simulateBtnDisabled' = ~InputsValid(dom)
    /\ pendingTimers' = pendingTimers - 1
    /\ UNCHANGED <<page, resetSinceClick, dom, storage, simulationData, loading, ops, tuning,
                   call, ret>>

\* the callback of setTimeout: simulatePID, then the button is enabled again
TimerFires ==
    /\ page = "corregida"
    /\ pendingTimers > 0
    /\ PidWithinSteps(dom)
    /\ \E r \in {simulatePID(corr, dom, metrics)} :
           /\ corr' = r.corr
           /\ metrics' = r.metrics
           /\ lastRun' = [trigger |-> "simulateBtn", outcome |-> r.outcome,
                          stored |-> r.outcome = "completed", cfg |-> dom,
                          ss |-> Thrown,
                          steps |-> IF r.outcome = "completed"
                                    THEN Len(r.corr.timeHistory) ELSE 0,
                          trace |-> <<>>,
                          repeat |-> \E h \in history : h.cfg = dom]
           /\ history' = IF r.outcome = "completed"
                         THEN history \cup {[cfg |-> dom, result |-> Histories(r.corr)]}
                         ELSE history
    /\ simulateBtnDisabled' = FALSE
    /\ pendingTimers' = pendingTimers - 1
    /\ UNCHANGED <<page, resetSinceClick, dom, storage, simulationData, loading, ops, tuning,
                   call, ret>>

\* click on resetBtn: resetSimulation
ResetClick ==
    /\ page = "corregida"
    /\ Event
    /\ metrics' = NoMetrics
    /\ dom' = CorregidaDefaults
    /\ resetSinceClick' = TRUE
    /\ UNCHANGED <<page, storage, simulationData, loading, corr,
                   simulateBtnDisabled, pendingTimers, lastRun, history, tuning,
                   call, ret>>

----------------------------------------------------------------------------
(* The pages as state machines *)

NoCall == [num |-> <<>>, den |-> <<>>, idle |-> TRUE]

\* copia and profesor: DOMContentLoaded runs the first simulation
InitSimulator(pg, d) ==
    \E r \in {runSimulation(pg, d, NoData, NoMetrics, Fill(MaxSteps, Zero))} :
        /\ page = pg
        /\ dom = d
        /\ simulationData = r.simulationData
        /\ metrics = r.metrics
        /\ loading = r.loading
        /\ lastRun = RunRecord(r, "DOMContentLoaded", {})
        /\ history = Remember({}, r.cfg, r.outcome, r.simulationData)
        /\ corr = NoCorr

\* corregida: nothing runs until the first click; the markup, which is not
\* part of the sources, sets the initial step and duration
InitCorregida ==
    /\ page = "corregida"
    /\ \E ts \in TimeStepValues : \E st \in SimulationTimeValues :
          dom = [CorregidaDefaults EXCEPT !.timeStep = ts, !.simulationTime = st]
    /\ simulationData = NoData
    /\ metrics = NoMetrics
    /\ loading = FALSE
    /\ lastRun = NoRun
    /\ history = {}
    /\ corr = NoCorr

Init ==
    /\ \/ InitSimulator("copia", CopiaDefaults)
       \/ InitSimulator("profesor", ProfesorDefaults)
       \/ InitCorregida
    /\ storage = <<>>
    /\ simulateBtnDisabled = FALSE
    /\ pendingTimers = 0
    /\ ops = 0
    /\ tuning = NoTuning
    /\ resetSinceClick = FALSE
    /\ call = NoCall
    /\ ret = <<>>

Next ==
    \/ RunButtonClick
    \/ ParamChange
    \/ FieldEdit
    \/ SliderInput
    \/ GainInputChange
    \/ DisturbanceInput
    \/ NumeratorChange
    \/ DenominatorChange
    \/ ControlTypeChange
    \/ PlantModelChange
    \/ SaveConfig
    \/ LoadConfig
    \/ StartTuningClick
    \/ TuningKpSliderInput
    \/ StartZnClick
    \/ ZnKpSliderInput
    \/ InputEdit
    \/ SimulateClick
    \/ TimerFires
    \/ ResetClick

Spec == Init /\ [][Next]_vars

\* The page with the pendulum on its own.
InitPendulum == Init /\ page = "corregida"

NextPendulum == InputEdit \/ SimulateClick \/ TimerFires \/ ResetClick

\* what a step of TimerFires does to pendingTimers; no other action lowers it,
\* so the steps of TimerRuns are the steps of TimerFires and both are enabled
\* in the same states
TimerRuns ==
    /\ page = "corregida"
    /\ pendingTimers > 0
    /\ PidWithinSteps(dom)
    /\ pendingTimers' = pendingTimers - 1

\* The event loop runs a due timer callback once no handler is running, and
\* every handler of the page returns: a pending callback is not postponed
\* forever.
SpecPendulum ==
    InitPendulum /\ [][NextPendulum]_vars /\ WF_pendingTimers(TimerRuns)

----------------------------------------------------------------------------
(* tfToStateSpace as a function: one call on bounded coefficient lists *)

TfCoefficients == {Zero, One, I(2)}

MaxNumeratorLen == 3

TfNumerators ==
    UNION {{Tup(f) : f \in [1..n -> TfCoefficients]} : n \in 1..MaxNumeratorLen}

TfDenominators ==
    {<<One, I(3), I(2)>>, <<I(2), I(6), I(4)>>, <<One, One>>, <<I(2), I(4)>>,
     <<One>>, <<Zero, One>>, <<>>}

InitTf ==
    /\ page \in {"copia", "profesor"}
    /\ call \in [num : TfNumerators, den : TfDenominators, idle : {FALSE}]
    /\ ret = <<>>
    /\ dom = IF page = "copia" THEN CopiaDefaults ELSE ProfesorDefaults
    /\ simulationData = NoData
    /\ metrics = NoMetrics
    /\ loading = FALSE
    /\ lastRun = NoRun
    /\ history = {}
    /\ corr = NoCorr
    /\ storage = <<>>
    /\ simulateBtnDisabled = FALSE
    /\ pendingTimers = 0
    /\ ops = 0
    /\ tuning = NoTuning
    /\ resetSinceClick = FALSE

\* the call returns (or throws)
Convert ==
    /\ ~call.idle
    /\ ret = <<>>
    /\ ret' = <<tfToStateSpace(page, call.num, call.den)>>
    /\ UNCHANGED <<page, resetSinceClick, dom, storage, simulationData, metrics, loading, corr,
                   simulateBtnDisabled, pendingTimers, lastRun, history, ops,
                   tuning, call>>

NextTf == Convert

SpecTf == InitTf /\ [][NextTf]_vars

----------------------------------------------------------------------------
(* findTu and suggestZNPIDValues as functions: one call on bounded arguments *)

\* the samples of an output series and the longest series
OutputValues == {Zero, I(2), I(3)}

MaxSamples == 8

OutputSeries ==
    UNION {{Tup(f) : f \in [1..n -> OutputValues]} : n \in 0..MaxSamples}

\* the time series runSimulation records next to n samples: i * dt
SampleTimes(n, dt) == Tup([i \in 1..n |-> Mul(I(i - 1), dt)])

KuValues == {One, R(5, 2), I(6)}
TuValues == {R(1, 2), One, R(5, 2), I(3), Zero}
TuningMethods == {"ziegler-nichols", "cohen-coon", "imc", "lambda"}

InitZn ==
    /\ page \in {"copia", "profesor"}
    /\ \/ call \in [fn : {"findTu"}, output : OutputSeries, dt : {One},
                    Ku : {One}, Tu : {Zero}, tuningMethod : {"ziegler-nichols"}]
       \/ call \in [fn : {"suggestZNPIDValues"}, output : {<<>>}, dt : {One},
                    Ku : KuValues, Tu : TuValues, tuningMethod : TuningMethods]
    /\ ret = <<>>
    /\ dom = IF page = "copia" THEN CopiaDefaults ELSE ProfesorDefaults
    /\ simulationData = NoData
    /\ metrics = NoMetrics
    /\ loading = FALSE
    /\ lastRun = NoRun
    /\ history = {}
    /\ corr = NoCorr
    /\ storage = <<>>
    /\ simulateBtnDisabled = FALSE
    /\ pendingTimers = 0
    /\ ops = 0
    /\ tuning = NoTuning
    /\ resetSinceClick = FALSE

OnlyCall == UNCHANGED <<page, resetSinceClick, dom, storage, simulationData, metrics, loading,
                        corr, simulateBtnDisabled, pendingTimers, lastRun, history,
                        ops, tuning>>

OnlyRet == UNCHANGED <<page, resetSinceClick, dom, storage, simulationData, metrics, loading, corr,
                       simulateBtnDisabled, pendingTimers, lastRun, history, ops,
                       tuning, call>>

\* findTu(output, time) returns; on profesor znKpSlider holds Ku
FindTu ==
    /\ call.fn = "findTu"
    /\ ret = <<>>
    /\ \E time \in {SampleTimes(Len(call.output), call.dt)} :
          ret' = IF page = "copia"
                 THEN <<[peaks |-> Peaks(page, call.output, time),
                         tu |-> findTuCopia(call.output, time)]>>
                 ELSE <<findTuProfesor(call.output, time, call.Ku)>>
    /\ OnlyRet

\* suggestZNPIDValues(Ku, Tu) returns (copia) or builds its suggestions (profesor)
SuggestZNPIDValues ==
    /\ call.fn = "suggestZNPIDValues"
    /\ ret = <<>>
    /\ ret' = IF page = "copia"
              THEN <<suggestZNPIDValuesCopia(call.tuningMethod, call.Ku, call.Tu)>>
              ELSE <<suggestZNPIDValuesProfesor(call.Ku, call.Tu)>>
    /\ OnlyRet

NextZn == FindTu \/ SuggestZNPIDValues

SpecZn == InitZn /\ [][NextZn]_vars

----------------------------------------------------------------------------
(* One long run of runSimulation, a step of the loop per transition.  The   *)
(* exact arithmetic leaves the integers within a few steps of dt = 0.01, so *)
(* this run is computed in fixed point: a number is the integer nearest to  *)
(* a million times its value, and every product and quotient is truncated   *)
(* to that grid.                                                            *)

FxUnit == 1000 * 1000

\* the fixed-point value of the rational a
FxOf(a) == (a[1] * FxUnit) \div a[2]

FxVec(v) == Tup([i \in 1..Len(v) |-> FxOf(v[i])])

\* a * b, computed in halves of three digits to stay within the integers
FxMulAbs(a, b) ==
    (a \div 1000) * (b \div 1000)
    + ((a \div 1000) * (b % 1000) + (a % 1000) * (b \div 1000)) \div 1000
    + ((a % 1000) * (b % 1000)) \div FxUnit

FxMul(a, b) == SgnInt(a) * SgnInt(b) * FxMulAbs(AbsInt(a), AbsInt(b))

\* a / b for a divisor b > 0
FxDiv(a, b) ==
    SgnInt(a) * ((AbsInt(a) * (FxUnit \div Gcd(FxUnit, b))) \div (b \div Gcd(FxUnit, b)))

RECURSIVE FxDotAcc(_, _, _, _)
FxDotAcc(c, x, j, sum) ==
    IF j > Len(c) THEN sum ELSE FxDotAcc(c, x, j + 1, sum + FxMul(c[j], x[j]))

\* f(x_vec) of rungeKutta, times dt
FxSlope(A, B, xv, u, dt) ==
    Tup([i \in 1..Len(xv) |-> FxMul(FxDotAcc(A[i], xv, 1, 0) + FxMul(B[i], u), dt)])

FxAxpy(x, c, k) == Tup([i \in 1..Len(x) |-> x[i] + FxMul(c, k[i])])

FxRkSum(x, k1, k2, k3, k4) ==
    Tup([i \in 1..Len(x) |->
        x[i] + FxDiv(k1[i] + 2 * k2[i] + 2 * k3[i] + k4[i], 6 * FxUnit)])

FxRkFrom3(A, B, x, u, dt, k1, k2, k3) ==
    FxRkSum(x, k1, k2, k3, FxSlope(A, B, FxAxpy(x, FxUnit, k3), u, dt))

FxRkFrom2(A, B, x, u, dt, k1, k2) ==
    FxRkFrom3(A, B, x, u, dt, k1, k2,
              FxSlope(A, B, FxAxpy(x, FxUnit \div 2, k2), u, dt))

FxRkFrom1(A, B, x, u, dt, k1) ==
    FxRkFrom2(A, B, x, u, dt, k1,
              FxSlope(A, B, FxAxpy(x, FxUnit \div 2, k1), u, dt))

\* rungeKutta(A, B, x, u, dt)
FxRungeKutta(A, B, x, u, dt) == FxRkFrom1(A, B, x, u, dt, FxSlope(A, B, x, u, dt))

\* the page of the long run: Kp = 2, Ki = Kd = 0, plant 1 / (s^2 + 3s + 2),
\* unit step, dt = 0.01, duration 5, no anti-windup, filter or disturbance
LongRunDom(pg) ==
    [(IF pg = "copia" THEN CopiaDefaults ELSE ProfesorDefaults) EXCEPT
        !.kp = I(2), !.ki = Zero, !.kd = Zero, !.kpSlider = I(2),
        !.kiSlider = Zero, !.kdSlider = Zero,
        !.simTime = I(5), !.dt = R(1, 100)]

\* the loop variables before the first step, for the plant ss
FxInitialLoopState(cfg, ss) ==
    [fn |-> "runSimulation", i |-> 0, steps |-> StepsOf(cfg)[1],
     A |-> Tup([r \in 1..Len(ss.A) |-> FxVec(ss.A[r])]),
     B |-> FxVec(ss.B), C |-> FxVec(ss.C), D |-> FxOf(ss.D),
     kp |-> FxOf(cfg.kp), ki |-> FxOf(cfg.ki), kd |-> FxOf(cfg.kd),
     dt |-> FxOf(cfg.dt), amplitude |-> FxOf(cfg.amplitude),
     x |-> Fill(Len(ss.A), 0), integral |-> 0, prevError |-> 0, control |-> 0]

InitLongRun ==
    /\ page \in {"copia", "profesor"}
    /\ dom = LongRunDom(page)
    /\ \E cfg \in {ReadConfig(page, dom)} :
          call = FxInitialLoopState(cfg,
                     tfToStateSpace(page, cfg.numerator, cfg.denominator))
    /\ ret = <<>>
    /\ simulationData = NoData
    /\ metrics = NoMetrics
    /\ loading = (page = "copia")
    /\ lastRun = NoRun
    /\ history = {}
    /\ corr = NoCorr
    /\ storage = <<>>
    /\ simulateBtnDisabled = FALSE
    /\ pendingTimers = 0
    /\ ops = 0
    /\ tuning = NoTuning
    /\ resetSinceClick = FALSE

\* the loop variables after the pass of the loop body that measured y,
\* computed the error and the control u
FxAdvance(st, currentError, integral, u) ==
    [st EXCEPT !.i = st.i + 1,
               !.x = FxRungeKutta(st.A, st.B, st.x, u, st.dt),
               !.integral = integral, !.prevError = currentError, !.control = u]

\* u_unclamped = kp * currentError + ki * integral + kd * derivative
FxControl(st, currentError, integral) ==
    FxAdvance(st, currentError, integral,
        FxMul(st.kp, currentError) + FxMul(st.ki, integral)
        + FxMul(st.kd, IF st.i > 0 THEN FxDiv(currentError - st.prevError, st.dt)
                       ELSE 0))

FxLoopStep(st, y) ==
    FxControl(st, st.amplitude - y, st.integral + FxMul(st.amplitude - y, st.dt))

\* y_plant = C*x + D*(control[i-1] || 0)
FxPlantOutput(st) == FxDotAcc(st.C, st.x, 1, 0) + FxMul(st.D, st.control)

\* one pass of the loop body: the output of the step is recorded in ret
LoopPass ==
    /\ call.fn = "runSimulation"
    /\ call.i < call.steps
    /\ \E y \in {FxPlantOutput(call)} :
          /\ ret' = Append(ret, y)
          /\ call' = FxLoopStep(call, y)
    /\ OnlyCall

NextLongRun == LoopPass

SpecLongRun == InitLongRun /\ [][NextLongRun]_vars

----------------------------------------------------------------------------
(* Properties *)

\* the numeric fields of a request are finite and the step and the duration
\* strictly positive
FieldsValid(kp, ki, kd, level, step, duration) ==
    /\ IsFinite(kp)
    /\ IsFinite(ki)
    /\ IsFinite(kd)
    /\ IsFinite(level)
    /\ IsFinite(step)
    /\ IsFinite(duration)
    /\ Gt(step, Zero)
    /\ Gt(duration, Zero)

\* the request of the last run was valid
RequestValid ==
    LET c == lastRun.cfg
    IN  IF page = "corregida"
        THEN FieldsValid(c.kp, c.ki, c.kd, c.setpoint, c.timeStep, c.simulationTime)
        ELSE FieldsValid(c.kp, c.ki, c.kd, c.amplitude, c.dt, c.simTime)

\* C1: the run triggered by loadConfig simulates with exactly the saved values
\* of Kp, Ki, Kd, numerator, denominator, time step, duration, reference kind,
\* amplitude, frequency, anti-windup mode, derivative-filter mode and
\* disturbance amplitude.
C1_LoadRunsSavedConfig ==
    lastRun.trigger = "loadConfig" =>
        /\ storage # <<>>
        /\ lastRun.cfg.kp = storage[1].kp
        /\ lastRun.cfg.ki = storage[1].ki
        /\ lastRun.cfg.kd = storage[1].kd
        /\ lastRun.cfg.numerator = storage[1].numerator
        /\ lastRun.cfg.denominator = storage[1].denominator
        /\ lastRun.cfg.dt = storage[1].dt
        /\ lastRun.cfg.simTime = storage[1].simTime
        /\ lastRun.cfg.controlType = storage[1].controlType
        /\ lastRun.cfg.amplitude = storage[1].amplitude
        /\ lastRun.cfg.frequency = storage[1].frequency
        /\ lastRun.cfg.antiWindup = storage[1].antiWindup
        /\ lastRun.cfg.derivativeFilter = storage[1].derivativeFilter
        /\ lastRun.cfg.disturbance = storage[1].disturbance

\* C2: in every front-end a run requested with a non-finite or missing numeric
\* field, or with a time step or duration that is not strictly positive,
\* executes no simulation step and leaves the stored result as it was.
C2_InvalidRequestRejected ==
    (lastRun.outcome # "none" /\ ~RequestValid) =>
        (~lastRun.stored /\ lastRun.steps = 0)

\* C3: with an empty denominator or a zero leading coefficient the run either
\* returns before the conversion or tfToStateSpace signals an error instead of
\* returning matrices, and the run stores no new result.
C3_BadDenominatorSignalled ==
    (/\ page \in {"copia", "profesor"}
     /\ lastRun.outcome # "none"
     /\ \/ Len(lastRun.cfg.denominator) = 0
        \/ IsZero(lastRun.cfg.denominator[1])) =>
        /\ lastRun.outcome = "rejected" \/ lastRun.ss.thrown
        /\ ~lastRun.stored

\* C4: with disturbance amplitude 0 the series of a completed run are a
\* function of the run's configuration only: whatever ran before, two runs of
\* the same configuration produced the same series.
C4_RunDependsOnConfigOnly ==
    \A a \in history : \A b \in history : a.cfg = b.cfg => a.result = b.result

\* a configuration completed again after a run of another configuration
C4_RepeatedAfterOther ==
    /\ lastRun.outcome = "completed"
    /\ lastRun.repeat
    /\ Cardinality(history) >= 2

\* C5: with anti-windup 'clamping' every recorded control value of a run lies
\* within [u_min, u_max] = [-5, 5], for all gains, Ki = 0 included.
C5_ControlWithinBounds ==
    (/\ page = "copia"
     /\ lastRun.stored
     /\ lastRun.cfg.antiWindup = "clamping"
     /\ RequestValid) =>
        \A i \in 1..Len(simulationData.control) :
            /\ Ge(simulationData.control[i], I(u_min))
            /\ Le(simulationData.control[i], I(u_max))

\* the unclamped output lies outside the saturation bounds
Saturates(u) == Gt(u, I(u_max)) \/ Lt(u, I(u_min))

\* C6: with 'clamping' and Ki = 0 a step whose unclamped output is outside
\* the bounds performs no back-correction: the integral keeps the value it
\* had after the accumulation of that step and stays finite for the rest of
\* the run.
C6_NoBackCorrectionAtZeroKi ==
    (/\ page = "copia"
     /\ lastRun.stored
     /\ lastRun.cfg.antiWindup = "clamping"
     /\ IsZero(lastRun.cfg.ki)
     /\ RequestValid) =>
        \A i \in 1..Len(lastRun.trace) :
            Saturates(lastRun.trace[i].u_unclamped) =>
                /\ lastRun.trace[i].integralEnd = lastRun.trace[i].integralAcc
                /\ \A j \in i..Len(lastRun.trace) :
                      IsFinite(lastRun.trace[j].integralEnd)

\* C7: for denominator [1, 3, 2] and any numerator of length at most 3,
\* tfToStateSpace returns A = [[0,1],[-2,-3]] and B = [0,1], in copia and in
\* profesor.
C7_CompanionMatrices ==
    (ret # <<>> /\ call.den = <<One, I(3), I(2)>> /\ Len(call.num) <= 3) =>
        /\ ~ret[1].thrown
        /\ ret[1].A = <<<<Zero, One>>, <<I(-2), I(-3)>>>>
        /\ ret[1].B = <<Zero, One>>

\* the conversion of a numerator of full length over [1, 3, 2] has returned
C7_Converted ==
    /\ ret # <<>>
    /\ call.den = <<One, I(3), I(2)>>
    /\ Len(call.num) = 3
    /\ call.num[1] # Zero
    /\ page = "profesor"

\* the numerator divided by the leading denominator coefficient and padded
\* with zeros on the left to the length of the denominator
PaddedNumerator(num, den) ==
    Fill(Len(den) - Len(num), Zero) \o Tup([i \in 1..Len(num) |-> Div(num[i], den[1])])

\* C8: for every proper transfer function tfToStateSpace returns as C the
\* normalized, left-padded numerator without its first element, in that order,
\* and as D that first element, in copia and in profesor.
C8_OutputRowIsPaddedNumerator ==
    (/\ ret # <<>>
     /\ Len(call.den) > 0
     /\ Len(call.num) <= Len(call.den)
     /\ ~IsZero(call.den[1])) =>
        /\ ~ret[1].thrown
        /\ ret[1].C = Tail(PaddedNumerator(call.num, call.den))
        /\ ret[1].D = Head(PaddedNumerator(call.num, call.den))

\* the series a completed run left, by page
SeriesLengths ==
    IF page = "corregida"
    THEN {Len(corr.timeHistory), Len(corr.systemOutputHistory),
          Len(corr.controlSignalHistory), Len(corr.referenceSignalHistory)}
    ELSE {Len(simulationData.time), Len(simulationData.reference),
          Len(simulationData.output), Len(simulationData.error),
          Len(simulationData.control)}

\* duration / dt of the last run
StepRatio ==
    IF page = "corregida"
    THEN Div(lastRun.cfg.simulationTime, lastRun.cfg.timeStep)
    ELSE Div(lastRun.cfg.simTime, lastRun.cfg.dt)

\* C9: for a valid time step and duration a completed run leaves time,
\* reference, output, control (and error) series of exactly floor(duration/dt)
\* elements, in every front-end.
C9_FloorManySamples ==
    (lastRun.outcome = "completed" /\ RequestValid) =>
        SeriesLengths = {Floor(StepRatio)[1]}

\* the last reference value of the stored run
FinalReference ==
    IF page = "corregida" THEN Last(corr.referenceSignalHistory)
    ELSE Last(simulationData.reference)

\* C10: for every completed run whose final reference value is 0 the metrics
\* report overshoot 0 and steady-state error 0, whatever the output is.
C10_ZeroReferenceZeroMetrics ==
    (lastRun.outcome = "completed" /\ IsZero(FinalReference)) =>
        /\ metrics.overshoot = Zero
        /\ metrics.steadyStateError = Zero

----------------------------------------------------------------------------
(* The tuning panel *)

\* a period or suggested gains are on the panel
TuReported == tuning.tuValue # NotApplicable \/ tuning.suggestions # <<>>

\* findTu detected at least two peaks in the output of a run that completed
\* for the Kp of the tuning slider
TwoPeaksDetected ==
    /\ tuning.analysis # <<>>
    /\ tuning.analysis[1].outcome = "completed"
    /\ tuning.analysis[1].cfg.kp = tuning.znKp
    /\ Len(tuning.analysis[1].peaks) >= 2

\* C11: after a change of the tuning Kp slider, a period Tu or suggested gains
\* are on the panel only if at least two peaks were detected in the output of
\* the run just simulated for that Kp; with fewer than two peaks Tu is shown as
\* undefined, no suggestion is shown and no exception left the handler.
C11_TuOnlyFromTwoPeaks ==
    tuning.event = "slider" =>
        /\ TuReported => TwoPeaksDetected
        /\ ~TwoPeaksDetected =>
              /\ tuning.tuValue = NotApplicable
              /\ tuning.suggestions = <<>>
              /\ ~tuning.raised

\* C12: once startZieglerNicholsTuning has run, every run whose output findTu
\* analyses was simulated with Ki = 0, Kd = 0 and a step reference.
C12_AnalysedRunsArePOnlyStep ==
    (tuning.started /\ tuning.analysis # <<>>) =>
        /\ tuning.analysis[1].cfg.ki = Zero
        /\ tuning.analysis[1].cfg.kd = Zero
        /\ tuning.analysis[1].cfg.controlType = "step"

\* the gain triples of the rule table
RuleTable(rule, Ku, Tu) ==
    CASE rule = "PID" -> <<Mul(R(6, 10), Ku), Div(Mul(R(12, 10), Ku), Tu),
                           Mul(Mul(R(75, 1000), Ku), Tu)>>
      [] rule = "PI" -> <<Mul(R(45, 100), Ku),
                          Div(Mul(R(45, 100), Ku), Div(Tu, R(12, 10))), Zero>>
      [] rule = "P" -> <<Mul(R(5, 10), Ku), Zero, Zero>>
      [] rule = "cohen-coon" -> <<Div(Mul(R(9, 10), Ku), R(135, 100)),
                                  Div(Mul(R(135, 100), Ku), Mul(R(25, 10), Tu)),
                                  Div(Mul(Mul(R(27, 100), Ku), Tu), R(135, 100))>>
      [] rule = "imc" -> <<Mul(R(5, 10), Ku), Div(Mul(R(5, 10), Ku), Tu),
                           Mul(Mul(R(125, 1000), Ku), Tu)>>

\* a suggestion of profesor and a result of copia as triples
TripleOf(s) == <<s.Kp, s.Ki, s.Kd>>

GainsOf(s) == <<s.kp, s.ki, s.kd>>

\* C13: for every Ku and every Tu > 0 each implemented tuning rule returns the
\* gain triple of the rule table (P, PI and PID on profesor; ziegler-nichols,
\* cohen-coon and imc on copia), and the PID triples of the two pages agree.
C13_RulesMatchTable ==
    (call.fn = "suggestZNPIDValues" /\ ret # <<>> /\ Gt(call.Tu, Zero)) =>
        /\ page = "profesor" =>
              /\ TripleOf(ret[1].P) = RuleTable("P", call.Ku, call.Tu)
              /\ TripleOf(ret[1].PI) = RuleTable("PI", call.Ku, call.Tu)
              /\ TripleOf(ret[1].PID) = RuleTable("PID", call.Ku, call.Tu)
        /\ (page = "copia" /\ call.tuningMethod = "ziegler-nichols") =>
              GainsOf(ret[1]) = RuleTable("PID", call.Ku, call.Tu)
        /\ (page = "copia" /\ call.tuningMethod \in {"cohen-coon", "imc"}) =>
              GainsOf(ret[1]) = RuleTable(call.tuningMethod, call.Ku, call.Tu)
        /\ TripleOf(suggestZNPIDValuesProfesor(call.Ku, call.Tu).PID)
              = GainsOf(suggestZNPIDValuesCopia("ziegler-nichols", call.Ku, call.Tu))

\* profesor built its suggestions for a gain and a period that are no integers
C13_Suggested ==
    /\ page = "profesor"
    /\ call.fn = "suggestZNPIDValues"
    /\ ret # <<>>
    /\ call.Ku = R(5, 2)
    /\ call.Tu = R(5, 2)
    /\ ret[1].PID.Ki = R(6, 5)

\* the mean of the differences between consecutive peak times
RECURSIVE SumOfDifferences(_, _)
SumOfDifferences(peaks, i) ==
    IF i >= Len(peaks) THEN Zero
    ELSE Add(Sub(peaks[i + 1], peaks[i]), SumOfDifferences(peaks, i + 1))

MeanSpacing(peaks) == Div(SumOfDifferences(peaks, 1), I(Len(peaks) - 1))

\* C14: for every series in which at least two peaks are detected, findTu
\* yields the mean of the differences between consecutive detected peak times,
\* over all detected peaks.
C14_TuIsMeanPeakSpacing ==
    (call.fn = "findTu" /\ ret # <<>> /\ Len(ret[1].peaks) >= 2) =>
        ret[1].tu = MeanSpacing(ret[1].peaks)

----------------------------------------------------------------------------
(* The disturbance *)

\* the series in simulationData are those of the run lastRun describes
SeriesOfLastRun ==
    /\ page \in {"copia", "profesor"}
    /\ lastRun.stored
    /\ Len(lastRun.trace) = Len(simulationData.output)

\* C15: at every step of every run the recorded output differs from the plant
\* output C*x + D*u_prev by at most the disturbance amplitude in absolute
\* value (a plant output that is no finite number is recorded as it is), the
\* error of the step is the reference minus the recorded output, and with a
\* disturbance amplitude of 0 the recorded output is the plant output.
C15_DisturbanceBounded ==
    SeriesOfLastRun =>
        \A i \in 1..Len(simulationData.output) :
            /\ IF IsFinite(lastRun.trace[i].y_plant)
               THEN Le(Abs(Sub(simulationData.output[i], lastRun.trace[i].y_plant)),
                       Abs(lastRun.cfg.disturbance))
               ELSE simulationData.output[i] = lastRun.trace[i].y_plant
            /\ simulationData.error[i]
                  = Sub(simulationData.reference[i], simulationData.output[i])
            /\ IsZero(lastRun.cfg.disturbance) =>
                  simulationData.output[i] = lastRun.trace[i].y_plant

\* copia: a run with a disturbance whose second sample lies above the plant
\* output and whose first lies below it by the whole amplitude
C15_DisturbedRun ==
    /\ page = "copia"
    /\ SeriesOfLastRun
    /\ ~IsZero(lastRun.cfg.disturbance)
    /\ Len(simulationData.output) = 2
    /\ Sub(simulationData.output[1], lastRun.trace[1].y_plant)
          = Neg(lastRun.cfg.disturbance)
    /\ Gt(simulationData.output[2], lastRun.trace[2].y_plant)

----------------------------------------------------------------------------
(* The metrics *)

\* the output and time series the metrics of the page are computed from
OutputShown ==
    IF page = "corregida" THEN corr.systemOutputHistory ELSE simulationData.output

TimeShown ==
    IF page = "corregida" THEN corr.timeHistory ELSE simulationData.time

\* the metric displays show the metrics of the latest run: it completed and
\* resetSimulation has not cleared them since
MetricsOfRun == lastRun.outcome = "completed" /\ metrics # NoMetrics

\* C16: the reported overshoot is 0 whenever the final reference is <= 0 or the
\* maximum of the output does not exceed the final reference, otherwise it is
\* 100 * (max(output) - final reference) / final reference; it is never negative.
C16_OvershootClamped ==
    MetricsOfRun =>
        /\ metrics.overshoot
              = IF Le(FinalReference, Zero) \/ ~Gt(MathMax(OutputShown), FinalReference)
                THEN Zero
                ELSE Div(Mul(I(100), Sub(MathMax(OutputShown), FinalReference)),
                         FinalReference)
        /\ ~Lt(metrics.overshoot, Zero)

\* some sample of the output is at or above the fraction of the final reference
Reaches(fraction) ==
    \E i \in 1..Len(OutputShown) : Ge(OutputShown[i], Mul(fraction, FinalReference))

\* C17: when the output never reaches 10% of the final value or never reaches
\* 90% of it, the rise time is reported as the 'not applicable' sentinel, not
\* as a number.
C17_RiseTimeNotApplicable ==
    (MetricsOfRun /\ (~Reaches(R(1, 10)) \/ ~Reaches(R(9, 10)))) =>
        metrics.riseTime = NotApplicable

\* the half-width of the tolerance band of the page: 5% of the final reference
\* on copia, 2% on profesor and corregida
BandHalfWidth ==
    IF page = "copia" THEN Mul(R(5, 100), FinalReference)
    ELSE IF page = "profesor" THEN Mul(R(2, 100), Abs(FinalReference))
    ELSE Mul(R(2, 100), FinalReference)

\* sample i lies outside the band centred on the final reference
OutsideBand(i) ==
    ~(/\ Ge(OutputShown[i], Sub(FinalReference, BandHalfWidth))
      /\ Le(OutputShown[i], Add(FinalReference, BandHalfWidth)))

\* C18: the reported settling time is the time of the last sample that lies
\* outside the tolerance band centred on the final reference; every later
\* sample lies inside the band.
C18_SettlingIsLastOutside ==
    MetricsOfRun =>
        \A i \in 1..Len(OutputShown) :
            (OutsideBand(i) /\ \A j \in (i + 1)..Len(OutputShown) : ~OutsideBand(j))
                => metrics.settlingTime = TimeShown[i]

\* C19: the reported steady-state error is the last element of the reference
\* series minus the last element of the output series, with its sign.
C19_SteadyStateErrorSigned ==
    MetricsOfRun =>
        metrics.steadyStateError = Sub(FinalReference, Last(OutputShown))

----------------------------------------------------------------------------
(* Improper transfer functions *)

\* C20: for a numerator longer than the denominator and a leading denominator
\* coefficient that is not zero, tfToStateSpace returns A, B, C and D and
\* raises no error.
C20_ImproperAccepted ==
    (/\ ret # <<>>
     /\ Len(call.den) >= 1
     /\ ~IsZero(call.den[1])
     /\ Len(call.num) > Len(call.den)) =>
        ~ret[1].thrown

----------------------------------------------------------------------------
(* Proportional control of 1 / (s^2 + 3s + 2) *)

\* C21: with Kp = 2, Ki = Kd = 0, the plant 1 / (s^2 + 3s + 2), a unit step,
\* dt = 0.01 and duration 5 the output series never decreases, and when the
\* run has ended no sample exceeds the final one.
C21_OutputMonotone ==
    call.fn = "runSimulation" =>
        /\ \A i \in 2..Len(ret) : ret[i] >= ret[i - 1]
        /\ call.i = call.steps => \A i \in 1..Len(ret) : ret[i] <= ret[Len(ret)]

----------------------------------------------------------------------------
(* The order of the operations of a step *)

\* the plant state at the start of step i (from 1) as the claim gives it: zero
\* at the first step, then the state of the step before advanced once with the
\* control value of that step
StateBefore(i) ==
    IF i = 1 THEN Fill(Len(lastRun.ss.A), Zero)
    ELSE rungeKutta(lastRun.ss.A, lastRun.ss.B, lastRun.trace[i - 1].xBefore,
                    simulationData.control[i - 1], lastRun.cfg.dt)

\* C22: at every step i the plant output is C*x_i + D*u_(i-1), with u_(-1) = 0
\* and x_i the state advanced once per step with the control value of that
\* step, and without disturbance it is the recorded output.
C22_StepOrder ==
    SeriesOfLastRun =>
        \A i \in 1..Len(simulationData.output) :
            /\ lastRun.trace[i].xBefore = StateBefore(i)
            /\ lastRun.trace[i].y_plant
                  = Add(Dot(lastRun.ss.C, lastRun.trace[i].xBefore),
                        Mul(lastRun.ss.D,
                            IF i = 1 THEN Zero ELSE simulationData.control[i - 1]))
            /\ IsZero(lastRun.cfg.disturbance) =>
                  simulationData.output[i] = lastRun.trace[i].y_plant

\* a run of two steps of a plant with direct feedthrough: the second output
\* contains D times the first control value
C22_SecondStepWithFeedthrough ==
    /\ SeriesOfLastRun
    /\ lastRun.ss.D = One
    /\ Len(simulationData.output) = 2
    /\ IsFinite(simulationData.control[1])
    /\ ~IsZero(simulationData.control[1])
    /\ lastRun.trace[2].xBefore # lastRun.trace[1].xBefore
    /\ lastRun.trace[2].y_plant # Dot(lastRun.ss.C, lastRun.trace[2].xBefore)

----------------------------------------------------------------------------
(* The derivative term *)

\* the error of step i (from 1) of the last run of the pendulum page, whose
\* output before the first step is 0
PendulumError(i) ==
    Sub(lastRun.cfg.setpoint,
        IF i = 1 THEN Zero ELSE corr.systemOutputHistory[i - 1])

\* the sum of error * timeStep over the steps 1..i
RECURSIVE PendulumIntegral(_)
PendulumIntegral(i) ==
    IF i = 0 THEN Zero
    ELSE Add(PendulumIntegral(i - 1), Mul(PendulumError(i), lastRun.cfg.timeStep))

\* the derivative of step i as stated: 0 at the first step, then the
\* difference of the errors over the step
StatedDerivative(e, ePrev, i, dt) ==
    IF i = 1 THEN Zero ELSE Div(Sub(e, ePrev), dt)

\* C23: in every front-end the derivative of the first step of a run is 0, so
\* the unclamped control of that step is Kp*e0 + Ki*e0*dt for every finite Kd,
\* and from the second step on the raw derivative is the difference of the
\* error and the error of the step before over dt.
C23_NoDerivativeKick ==
    /\ SeriesOfLastRun /\ IsFinite(lastRun.cfg.kd) =>
          \A i \in 1..Len(simulationData.error) :
             /\ ~Filtering(page, lastRun.cfg) =>
                   lastRun.trace[i].derivative
                      = StatedDerivative(simulationData.error[i],
                                         IF i = 1 THEN Zero
                                         ELSE simulationData.error[i - 1],
                                         i, lastRun.cfg.dt)
             /\ i = 1 =>
                   lastRun.trace[1].u_unclamped
                      = Add(Mul(lastRun.cfg.kp, simulationData.error[1]),
                            Mul(lastRun.cfg.ki,
                                Mul(simulationData.error[1], lastRun.cfg.dt)))
    /\ page = "corregida" /\ lastRun.outcome = "completed" =>
          \A i \in 1..Len(corr.controlSignalHistory) :
             corr.controlSignalHistory[i]
                = Add(Add(Mul(lastRun.cfg.kp, PendulumError(i)),
                          Mul(lastRun.cfg.ki, PendulumIntegral(i))),
                      Mul(lastRun.cfg.kd,
                          StatedDerivative(PendulumError(i),
                                           IF i = 1 THEN Zero
                                           ELSE PendulumError(i - 1),
                                           i, lastRun.cfg.timeStep)))

----------------------------------------------------------------------------
(* Anti-windup by back-calculation *)

\* Kp*error + Ki*I + Kd*derivative of step i with I the integral the step
\* leaves behind
TermsAfterStep(i) ==
    Add(Add(Mul(lastRun.cfg.kp, simulationData.error[i]),
            Mul(lastRun.cfg.ki, lastRun.trace[i].integralEnd)),
        Mul(lastRun.cfg.kd, lastRun.trace[i].derivative))

\* C24: with 'clamping' and Ki different from 0, after every step whose
\* unclamped output was saturated the integral I left by the step satisfies
\* Kp*error + Ki*I + Kd*derivative = clamped output of the step, which is one
\* of the two bounds.
C24_BackCalculation ==
    (/\ page = "copia"
     /\ lastRun.stored
     /\ lastRun.cfg.antiWindup = "clamping"
     /\ ~IsZero(lastRun.cfg.ki)) =>
        \A i \in 1..Len(lastRun.trace) :
            Saturates(lastRun.trace[i].u_unclamped) =>
                /\ TermsAfterStep(i) = simulationData.control[i]
                /\ simulationData.control[i] \in {I(u_min), I(u_max)}

\* a clamping run with Ki different from 0 whose two steps are both saturated
C24_TwoSaturatedSteps ==
    /\ page = "copia"
    /\ lastRun.stored
    /\ lastRun.cfg.antiWindup = "clamping"
    /\ ~IsZero(lastRun.cfg.ki)
    /\ Len(lastRun.trace) = 2
    /\ Saturates(lastRun.trace[1].u_unclamped)
    /\ Saturates(lastRun.trace[2].u_unclamped)
    /\ lastRun.trace[2].integralEnd # lastRun.trace[2].integralAcc

----------------------------------------------------------------------------
(* Calls of generateReference and of rungeKutta on their own *)

ReferenceTimes == {Zero, One, I(3)}

Matrices1 == {<<<<I(-1)>>>>, <<<<Zero>>>>, <<<<I(2)>>>>}
MatrixRows2 == {<<Zero, One>>, <<I(-2), I(-3)>>, <<One, One>>}
Matrices2 == {<<r1, r2>> : r1 \in MatrixRows2, r2 \in MatrixRows2}
InputVectors1 == {<<One>>, <<I(-2)>>}
InputVectors2 == {<<Zero, One>>, <<One, Zero>>}
StateVectors1 == {<<Zero>>, <<R(1, 2)>>}
StateVectors2 == {<<Zero, Zero>>, <<One, I(-1)>>, <<R(1, 2), I(2)>>}
HeldInputs == {Zero, One, I(-5)}
StepSizes == {One, R(1, 2), I(2)}

NoArguments ==
    [t |-> Zero, type |-> "step", amp |-> Zero, freq |-> Zero,
     A |-> <<>>, B |-> <<>>, x |-> <<>>, u |-> Zero, dt |-> One]

ReferenceCalls ==
    {[NoArguments EXCEPT !.t = t, !.type = type, !.amp = amp, !.freq = freq] :
        t \in ReferenceTimes, type \in ControlTypes,
        amp \in AmplitudeValues, freq \in FrequencyValues}

IntegratorCalls(As, Bs, xs) ==
    {[NoArguments EXCEPT !.A = a[1], !.B = a[2], !.x = a[3], !.u = a[4],
                         !.dt = a[5]] :
        a \in As \X Bs \X xs \X HeldInputs \X StepSizes}

InitFn ==
    /\ page \in {"copia", "profesor"}
    /\ \E fn \in {"generateReference", "rungeKutta"} :
          \E args \in IF fn = "generateReference" THEN ReferenceCalls
                      ELSE IntegratorCalls(Matrices1, InputVectors1, StateVectors1)
                           \cup IntegratorCalls(Matrices2, InputVectors2,
                                                StateVectors2) :
             call = [fn |-> fn] @@ args
    /\ ret = <<>>
    /\ dom = IF page = "copia" THEN CopiaDefaults ELSE ProfesorDefaults
    /\ simulationData = NoData
    /\ metrics = NoMetrics
    /\ loading = FALSE
    /\ lastRun = NoRun
    /\ history = {}
    /\ corr = NoCorr
    /\ storage = <<>>
    /\ simulateBtnDisabled = FALSE
    /\ pendingTimers = 0
    /\ ops = 0
    /\ tuning = NoTuning
    /\ resetSinceClick = FALSE

\* generateReference(t, type, amp, freq) returns
GenerateReference ==
    /\ call.fn = "generateReference"
    /\ ret = <<>>
    /\ ret' = <<[value |-> generateReference(page, call.t, call.type, call.amp,
                                             call.freq)]>>
    /\ OnlyRet

\* rungeKutta(A, B, x, u, dt) returns; f and the maps build new arrays, no
\* statement assigns to an element of A, B or x
RungeKutta ==
    /\ call.fn = "rungeKutta"
    /\ ret = <<>>
    /\ ret' = <<[value |-> rungeKutta(call.A, call.B, call.x, call.u, call.dt),
                 A |-> call.A, B |-> call.B, x |-> call.x]>>
    /\ OnlyRet

NextFn == GenerateReference \/ RungeKutta

SpecFn == InitFn /\ [][NextFn]_vars

----------------------------------------------------------------------------
(* The values of the reference signal *)

\* C25: in every front-end with a reference generator the reference at time t
\* is amplitude for kind 'step', amplitude * t for kind 'ramp' at every
\* t >= 0, t > 1 included, and 0 for kind 'square' at t = 0.
C25_ReferenceValues ==
    (call.fn = "generateReference" /\ ret # <<>>) =>
        /\ call.type = "step" => ret[1].value = call.amp
        /\ call.type = "ramp" /\ Ge(call.t, Zero) =>
              ret[1].value = Mul(call.amp, call.t)
        /\ (call.type = "square" /\ IsZero(call.t) /\ IsFinite(call.amp)) =>
              ret[1].value = Zero

----------------------------------------------------------------------------
(* The classical Runge-Kutta step *)

\* f(v) = A*v + B*u
StatedF(A, B, v, u) ==
    Tup([i \in 1..Len(v) |-> Add(Dot(A[i], v), Mul(B[i], u))])

\* x + dt/6 * (k1 + 2*k2 + 2*k3 + k4)
StatedSum(x, dt, k1, k2, k3, k4) ==
    Tup([i \in 1..Len(x) |->
        Add(x[i], Mul(Div(dt, I(6)),
                      Add(Add(Add(k1[i], Mul(I(2), k2[i])), Mul(I(2), k3[i])),
                          k4[i])))])

StatedFrom3(A, B, x, u, dt, k1, k2, k3) ==
    StatedSum(x, dt, k1, k2, k3, StatedF(A, B, Axpy(x, dt, k3), u))

StatedFrom2(A, B, x, u, dt, k1, k2) ==
    StatedFrom3(A, B, x, u, dt, k1, k2,
                StatedF(A, B, Axpy(x, Div(dt, I(2)), k2), u))

StatedFrom1(A, B, x, u, dt, k1) ==
    StatedFrom2(A, B, x, u, dt, k1,
                StatedF(A, B, Axpy(x, Div(dt, I(2)), k1), u))

\* C26: rungeKutta(A, B, x, u, dt) returns x + dt/6*(k1 + 2*k2 + 2*k3 + k4)
\* with k1 = f(x), k2 = f(x + dt/2*k1), k3 = f(x + dt/2*k2), k4 = f(x + dt*k3)
\* and f(v) = A*v + B*u, and A, B and x are after the call what they were
\* before it.
C26_ClassicalStep ==
    (call.fn = "rungeKutta" /\ ret # <<>>) =>
        /\ ret[1].value = StatedFrom1(call.A, call.B, call.x, call.u, call.dt,
                                      StatedF(call.A, call.B, call.x, call.u))
        /\ ret[1].A = call.A
        /\ ret[1].B = call.B
        /\ ret[1].x = call.x

\* a step of a second-order system with a non-zero input and a step size
\* other than 1 that moves both components of the state
C26_StepOfSecondOrder ==
    /\ call.fn = "rungeKutta"
    /\ ret # <<>>
    /\ Len(call.x) = 2
    /\ ~IsZero(call.u)
    /\ call.dt = R(1, 2)
    /\ ret[1].value[1] # call.x[1]
    /\ ret[1].value[2] # call.x[2]

----------------------------------------------------------------------------
(* Reset against a pending simulation *)

\* C27: once resetSimulation has run, and until the next click on Simulate,
\* the metric displays stay 'N/A' and no step of the page changes an input;
\* an input changes only by an edit of the user, the deferred simulatePID of
\* an earlier click included.
C27_ResetStateKept ==
    [][(page = "corregida" /\ resetSinceClick /\ resetSinceClick') =>
          /\ metrics' = NoMetrics
          /\ dom' = dom \/ ops' # ops]_vars

----------------------------------------------------------------------------
(* The Simulate button *)

\* C28: a click on Simulate finds the button enabled and disables it, at most
\* one deferred simulatePID is pending at any time, the button is disabled
\* exactly while one is pending, and a disabled button is enabled again,
\* unless the pending run is longer than the MaxSteps steps executed here.
C28_ButtonProtocol ==
    /\ [](page = "corregida" =>
            /\ pendingTimers \in {0, 1}
            /\ simulateBtnDisabled <=> pendingTimers = 1)
    /\ [][pendingTimers' > pendingTimers =>
            ~simulateBtnDisabled /\ simulateBtnDisabled']_vars
    /\ simulateBtnDisabled ~> (~simulateBtnDisabled \/ ~PidWithinSteps(dom))

\* the button is enabled again after a click whose simulatePID rejected the
\* inputs
C28_EnabledAfterRejection ==
    /\ page = "corregida"
    /\ lastRun.trigger = "simulateBtn"
    /\ lastRun.outcome = "rejected"
    /\ lastRun.cfg = dom
    /\ ~simulateBtnDisabled
    /\ pendingTimers = 0

----------------------------------------------------------------------------
(* The loading indicator *)

\* C29: after every call of runSimulation of copia, one that completes, one
\* rejected for invalid coefficients and one that fails inside tfToStateSpace
\* alike, the loading indicator is hidden.
C29_LoadingHidden ==
    (page = "copia" /\ lastRun.outcome \in {"completed", "rejected", "threw"}) =>
        ~loading

----------------------------------------------------------------------------
(* The sign of the rise time *)

\* C30: in every front-end a rise time reported as a number is at least 0.
C30_RiseTimeNotNegative ==
    (MetricsOfRun /\ metrics.riseTime # NotApplicable /\ ~IsNaN(metrics.riseTime)) =>
        Ge(metrics.riseTime, Zero)

====
